---- MODULE Spec2Model ----
(***************************************************************************)
(* TermIO (src/src/server.rs, user.rs, message.rs, client.rs, webcam.rs,   *)
(* ascii.rs).                                                              *)
(*                                                                         *)
(* One tokio task per accepted connection runs handle_connection.  The     *)
(* tasks share the user registry (UserManager.users, a tokio RwLock) and   *)
(* the connection table (connections, a parking_lot RwLock).  A handler is *)
(* written as the sequence of its steps, one per acquisition of a lock on  *)
(* shared state; the statements that touch only the task's locals or its   *)
(* own socket are folded into the neighbouring step.  A broadcast holds    *)
(* the connection table's read lock for its whole loop and is one step.    *)
(*                                                                         *)
(* Spec schedules the steps one handler at a time: a handler that has      *)
(* started runs to its end before another task moves, and an idle task     *)
(* whose channel holds more than MaxBacklog messages delivers before any   *)
(* task reads its next inbound message.  LiveSpec adds the fairness of the *)
(* runtime, over shorter runs.                                             *)
(*                                                                         *)
(* A write to a socket either completes or, when the peer has stopped      *)
(* reading, never completes; the task then stays in the write for good.    *)
(* sock[c] records the writes that completed, so that the order in which   *)
(* a peer receives messages can be stated.                                 *)
(*                                                                         *)
(* RaceSpec lets the tasks interleave step by step (joins and departures   *)
(* only); FailSpec is LiveSpec with writes that may return an error.       *)
(*                                                                         *)
(* The client side: the receiver task of client.rs is the operator         *)
(* `receive`, folded over what the hub has written to a socket.  The       *)
(* capture bridge of webcam.rs (one capture thread, a frame channel of     *)
(* capacity 2, a command channel of capacity 1, a polling consumer) has    *)
(* its own variables and its own specifications, BridgeSpec and            *)
(* BridgeLiveSpec; the hub's steps leave the bridge alone and the bridge's *)
(* steps leave the hub alone.                                              *)
(*                                                                         *)
(* The frame encoder of ascii.rs and the cell access of message.rs are     *)
(* operators, with the f32 arithmetic of luminance computed bit for bit;   *)
(* EncodeSpec applies them to colours, rasters and frames.  WireSpec is    *)
(* the hub with clients that send frames as records of width, height and   *)
(* data.  AggSpec runs one client's aggregator with its two writers, the   *)
(* receiver task and the webcam sender task.  LockSpec runs the handlers   *)
(* of the hub as the sequences of their lock operations and socket awaits. *)
(* PaceSpec runs the frame loop of the capture thread against a clock in   *)
(* ms.  RaceDataSpec is RaceSpec with frames and chats.  MirrorSpec joins  *)
(* the hub with one client whose frames the hub sends back to it.          *)
(***************************************************************************)
EXTENDS Integers, Sequences, FiniteSets, TLC

\* ------------------------------------------------------------------ bounds
\* Number of connections the listener accepts.
NumConns == 2
\* Number of Join messages the hub reads in all (user ids 1..MaxJoins).
MaxJoins == 3
\* Number of Frame, Chat and Ping messages the hub reads in all.
MaxData == 2
\* Messages an idle task may leave in its channel while others go on.
MaxBacklog == 0
\* Sockets whose peer stops reading.
MaxFaults == 1

Conns == 1..NumConns
Names == {"alice", "bob"}
\* The display name the client on connection c was started with.
NameOf(c) == IF c = 1 THEN "alice" ELSE "bob"
None == [none |-> TRUE]
Some(v) == [some |-> v]

VARIABLES
    pc,           \* pc[c]: where connection task c stands in handle_connection
    user,         \* user[c]: the task's local `user: Option<User>`
    msg,          \* msg[c]: the inbound message the task is handling
    new_user,     \* new_user[c]: the task's local `new_user` during a Join
    user_list,    \* user_list[c]: the task's local roster snapshot
    users,        \* UserManager.users: Vec<User>
    last_frame,   \* last_frame[id]: User.last_frame of the user with that id
    connections,  \* connections: HashMap<user id, sender of a task's channel>
    queue,        \* queue[c]: the messages in the mpsc channel of task c
    sock,         \* sock[c]: the messages written to the socket of task c
    nextId,       \* the next fresh user id (Uuid::new_v4 never repeats)
    ndata,        \* number of Frame, Chat and Ping messages read so far
    device,       \* whether the device of WebcamConfig can be opened
    bridge,       \* the WebcamCapture value: not built, held by the caller, dropped
    thread,       \* where the capture thread stands in capture_loop
    outcome,      \* how capture_loop ended
    packet,       \* the packet the capture loop is working on
    avail,        \* frames the decoder still yields for that packet
    sending,      \* the frame the thread is passing to tx.send
    produced,     \* number of frames converted so far (frames are 1, 2, ...)
    frames,       \* the frame channel, bounded::<AsciiFrame>(2)
    cmd,          \* the command channel, bounded::<WebcamCommand>(1)
    got,          \* the frames try_recv has returned, in order
    polled,       \* what the last try_recv returned
    pixel,        \* the colour last given to ascii_for
    glyph_ix,     \* the palette index ascii_for computed for it
    glyph,        \* the character ascii_for returned for it
    rgb,          \* the RGB24 raster given to to_ascii_frame
    mono,         \* the `mono` argument of to_ascii_frame
    frame,        \* the AsciiFrame at hand
    encoded,      \* that frame as to_ascii_frame returned it
    knobs,        \* the frame before, and the arguments of, the last adjust_contrast
    probe,        \* the coordinates and the result of the last get_cell
    agg,          \* a client's aggregator: roster, frames and chat log
    inbox,        \* the messages that aggregator has processed, in order
    ops,          \* ops[c]: the lock and I/O operations task c has still to do
    holds,        \* holds[c]: the locks task c holds
    phase,        \* phase[c]: "new", "joined" or "done"
    waitq,        \* the tasks that wait for a lock, in the order they arrived
    clock,        \* the time, in ms
    fps_cap,      \* config.fps_cap
    stage,        \* where the capture thread is in the frame loop
    last_frame_time, \* process_frames' local of that name
    handed_at,    \* when tx.send was called last
    returned_at,  \* when the tx.send before that one returned
    slept         \* whether thread::sleep has been called

\* The parts of the state: the hub, one client's capture bridge, the frame
\* encoder, a client's aggregator, the hub's locks, and the timing of the
\* capture thread's frame loop.
hub == <<pc, user, msg, new_user, user_list, users, last_frame, connections,
         queue, sock, nextId, ndata>>
cam == <<device, bridge, thread, outcome, packet, avail, sending, produced,
         frames, cmd, got, polled>>
pix == <<pixel, glyph_ix, glyph, rgb, mono, frame, encoded, knobs, probe>>
agv == <<agg, inbox>>
lck == <<ops, holds, phase, waitq>>
tim == <<clock, fps_cap, stage, last_frame_time, handed_at, returned_at, slept>>
vars == <<pc, user, msg, new_user, user_list, users, last_frame, connections,
          queue, sock, nextId, ndata, device, bridge, thread, outcome, packet,
          avail, sending, produced, frames, cmd, got, polled, pixel, glyph_ix,
          glyph, rgb, mono, frame, encoded, knobs, probe, agg, inbox, ops,
          holds, phase, waitq, clock, fps_cap, stage, last_frame_time,
          handed_at, returned_at, slept>>

\* What the steps of one part leave alone: every other part.
NotHub == <<cam, pix, agv, lck, tim>>
NotCam == <<hub, pix, agv, lck, tim>>
NotPix == <<hub, cam, agv, lck, tim>>
NotAgg == <<hub, cam, pix, lck, tim>>
NotLck == <<hub, cam, pix, agv, tim>>
NotTim == <<hub, cam, pix, agv, lck>>

\* ------------------------------------------------------------ message.rs
Ack(success, message) == [type |-> "Ack", success |-> success, message |-> message]
UserListMsg(l) == [type |-> "UserList", list |-> l]
UserJoined(u) == [type |-> "UserJoined", user_id |-> u.id, username |-> u.username]
UserLeft(u) == [type |-> "UserLeft", user_id |-> u.id, username |-> u.username]
FrameMsg(u, f) == [type |-> "Frame", user_id |-> u.id, username |-> u.username, frame |-> f]
ChatMsg(u, t) == [type |-> "Chat", user_id |-> u.id, username |-> u.username, content |-> t]
Pong == [type |-> "Pong"]

\* --------------------------------------------------------------- user.rs
\* Utc::now(): the clock ticks once for every user created and once for every
\* Frame, Chat or Ping read.
Now == nextId + ndata

\* User::new: a fresh id, the given name, the time of creation.
User_new(username) == [id |-> nextId, username |-> username, connected_at |-> Now]

\* User::info
info(u) == [user_id |-> u.id, username |-> u.username, connected_at |-> u.connected_at]

\* UserManager::add_user: push at the end of the Vec.
add_user(us, u) == Append(us, u)

\* A faulty remove_user that removes nobody.
remove_user_never(us, id) == us

\* UserManager::remove_user: remove the first user with that id, if any.
remove_user(us, id) ==
    IF \E i \in 1..Len(us) : us[i].id = id
    THEN LET pos == CHOOSE i \in 1..Len(us) :
                        us[i].id = id /\ \A j \in 1..(i - 1) : us[j].id # id
         IN  SubSeq(us, 1, pos - 1) \o SubSeq(us, pos + 1, Len(us))
    ELSE us

\* UserManager::get_user_list
get_user_list(us) == [i \in 1..Len(us) |-> info(us[i])]

\* ------------------------------------------------------------- server.rs
\* The receiver of task c's channel lives until handle_connection returns.
Open(c) == pc[c] # "done"

\* m repeated n times.
Copies(m, n) == [i \in 1..n |-> m]

\* The ids whose sender in table conns feeds the channel of task d.
Owned(conns, d) == {id \in DOMAIN conns : conns[id] = d}

\* A faulty broadcast_to_all that gives up on the first closed channel
\* (`tx.send(..)?`), before any message is sent.
broadcast_to_all_strict(q, conns, m) ==
    IF \E id \in DOMAIN conns : pc[conns[id]] = "done"
    THEN q
    ELSE [d \in Conns |-> q[d] \o Copies(m, Cardinality(Owned(conns, d)))]

\* A faulty broadcast_to_all that puts the message at the front of a channel.
broadcast_to_all_front(q, conns, m) ==
    [d \in Conns |->
        IF Open(d) THEN Copies(m, Cardinality(Owned(conns, d))) \o q[d]
        ELSE q[d]]

\* TermIOServer::broadcast_to_all: one tx.send per entry of the table; a
\* send on a channel whose receiver is gone returns Err, which is dropped.
broadcast_to_all(q, conns, m) ==
    [d \in Conns |->
        IF Open(d) THEN q[d] \o Copies(m, Cardinality(Owned(conns, d)))
        ELSE q[d]]

\* A faulty broadcast_except that skips no entry.
broadcast_except_nobody(q, conns, m, except_id) ==
    [d \in Conns |->
        IF Open(d) THEN q[d] \o Copies(m, Cardinality(Owned(conns, d)))
        ELSE q[d]]

\* TermIOServer::broadcast_except: as above, skipping the entry except_id.
broadcast_except(q, conns, m, except_id) ==
    [d \in Conns |->
        IF Open(d)
        THEN q[d] \o Copies(m, Cardinality(Owned(conns, d) \ {except_id}))
        ELSE q[d]]

\* A socket whose peer has stopped reading: a write on it never completes.
\* At most MaxFaults sockets are in that state.
MayStall == Cardinality({d \in Conns : pc[d] = "send_blocked"}) < MaxFaults

\* ws_tx.send(WsMessage::Text(json)).await on task c's socket, then the task
\* goes on at `to`; or the write never completes and the task stays in it.
ws_send(c, m, to) ==
    \/ /\ sock' = [sock EXCEPT ![c] = Append(@, m)]
       /\ pc' = [pc EXCEPT ![c] = to]
    \/ /\ MayStall
       /\ pc' = [pc EXCEPT ![c] = "send_blocked"]
       /\ UNCHANGED sock

\* The kinds of inbound text the hub reads and drops: text that does not
\* parse (server.rs 152-154) and the messages of the `_ => {}` arm (149).
IgnoredTypes == {"Malformed", "UserList", "UserJoined", "UserLeft", "Ack", "Pong"}

\* The user_id a client may put in a Frame or Chat: the empty string the
\* shipped client sends (0) or the id of the first user.
ClaimedIds == {0, 1}

\* What a client can send as one protocol message; body is the frame or the
\* chat text.
InJoin == [type : {"Join"}, username : Names]
InData(body) ==
    [type : {"Frame"}, user_id : ClaimedIds, username : Names, frame : {body}]
    \cup [type : {"Chat"}, user_id : ClaimedIds, username : Names, content : {body}]
    \cup [type : {"Ping"}]
InIgnored == [type : IgnoredTypes]

\* What the arm's pattern binds of the message: Join binds username, Frame
\* binds frame (`user_id: _, username: _`), Chat binds content (`..`), the
\* other arms bind nothing.
Bound(m) ==
    CASE m.type = "Join" -> [type |-> "Join", username |-> m.username]
      [] m.type = "Frame" -> [type |-> "Frame", frame |-> m.frame]
      [] m.type = "Chat" -> [type |-> "Chat", content |-> m.content]
      [] OTHER -> None

\* The match arm serde_json::from_str and `match msg` select.
Arm(m) ==
    CASE m.type = "Join" -> "join_add"
      [] m.type = "Frame" -> "frame"
      [] m.type = "Chat" -> "chat"
      [] m.type = "Ping" -> "ping"
      [] OTHER -> "ignore"

\* handle_connection returns: its locals, the channel's receiver among
\* them, are dropped.
Return(c) ==
    /\ pc' = [pc EXCEPT ![c] = "done"]
    /\ queue' = [queue EXCEPT ![c] = <<>>]

Init ==
    /\ pc = [c \in Conns |-> "idle"]
    /\ user = [c \in Conns |-> None]
    /\ msg = [c \in Conns |-> None]
    /\ new_user = [c \in Conns |-> None]
    /\ user_list = [c \in Conns |-> <<>>]
    /\ users = <<>>
    /\ last_frame = <<>>
    /\ connections = <<>>
    /\ queue = [c \in Conns |-> <<>>]
    /\ sock = [c \in Conns |-> <<>>]
    /\ nextId = 1
    /\ ndata = 0
    /\ device = "none"
    /\ bridge = "none"
    /\ thread = "none"
    /\ outcome = "none"
    /\ packet = "none"
    /\ avail = 0
    /\ sending = 0
    /\ produced = 0
    /\ frames = <<>>
    /\ cmd = <<>>
    /\ got = <<>>
    /\ polled = [unpolled |-> TRUE]
    /\ pixel = None
    /\ glyph_ix = 0
    /\ glyph = 0
    /\ rgb = None
    /\ mono = FALSE
    /\ frame = None
    /\ encoded = None
    /\ knobs = None
    /\ probe = None
    /\ agg = [connected_users |-> <<>>, last_frames |-> <<>>, chat_messages |-> <<>>]
    /\ inbox = <<>>
    /\ ops = [c \in Conns |-> <<>>]
    /\ holds = [c \in Conns |-> {}]
    /\ phase = [c \in Conns |-> "new"]
    /\ waitq = <<>>
    /\ clock = 0
    /\ fps_cap = 0
    /\ stage = "start"
    /\ last_frame_time = 0
    /\ handed_at = None
    /\ returned_at = None
    /\ slept = FALSE

\* run: accept, spawn the task; handle_connection up to the loop.
Accept(c) ==
    /\ pc[c] = "idle"
    /\ pc' = [pc EXCEPT ![c] = "loop"]
    /\ UNCHANGED <<user, msg, new_user, user_list, users, last_frame,
                   connections, queue, sock, nextId, ndata>>

\* select!: ws_rx.next() yields a text message, which is parsed.
RecvText(c) ==
    /\ pc[c] = "loop"
    /\ \/ /\ nextId + Cardinality({d \in Conns : pc[d] = "join_add"}) <= MaxJoins
          /\ \E m \in {x \in InJoin : x.username = NameOf(c)} :
                /\ msg' = [msg EXCEPT ![c] = Bound(m)]
                /\ pc' = [pc EXCEPT ![c] = Arm(m)]
          /\ UNCHANGED ndata
       \/ /\ ndata < MaxData
          /\ \E m \in InData(ndata + 1) :
                /\ msg' = [msg EXCEPT ![c] = Bound(m)]
                /\ pc' = [pc EXCEPT ![c] = Arm(m)]
          /\ ndata' = ndata + 1
       \/ /\ \E m \in InIgnored :
                /\ msg' = [msg EXCEPT ![c] = Bound(m)]
                /\ pc' = [pc EXCEPT ![c] = Arm(m)]
          /\ UNCHANGED ndata
    /\ UNCHANGED <<user, new_user, user_list, users, last_frame, connections,
                   queue, sock, nextId>>

\* Message::Join, line 77: user_manager.add_user(username).
JoinAdd(c) ==
    /\ pc[c] = "join_add"
    /\ LET u == User_new(msg[c].username)
       IN  /\ users' = add_user(users, u)
           /\ last_frame' = (u.id :> None) @@ last_frame
           /\ new_user' = [new_user EXCEPT ![c] = u]
    /\ nextId' = nextId + 1
    /\ pc' = [pc EXCEPT ![c] = "join_insert"]
    /\ UNCHANGED <<user, msg, user_list, connections, queue, sock, ndata>>

\* Lines 83-84: connections.write().insert(user_id, tx); user = Some(new_user).
JoinInsert(c) ==
    /\ pc[c] = "join_insert"
    /\ connections' = (new_user[c].id :> c) @@ connections
    /\ user' = [user EXCEPT ![c] = new_user[c]]
    /\ pc' = [pc EXCEPT ![c] = "join_ack"]
    /\ UNCHANGED <<msg, new_user, user_list, users, last_frame, queue, sock, nextId, ndata>>

\* format!("Welcome, {}!", username)
Welcome(username) == "Welcome, " \o username \o "!"

\* A faulty Join arm that sends the Ack through the task's own channel.
JoinAck_queued(c) ==
    /\ pc[c] = "join_ack"
    /\ queue' = [queue EXCEPT ![c] = Append(@, Ack(TRUE, Welcome(msg[c].username)))]
    /\ pc' = [pc EXCEPT ![c] = "join_list"]
    /\ user_list' = [user_list EXCEPT ![c] = get_user_list(users)]
    /\ UNCHANGED <<user, msg, new_user, users, last_frame, connections, sock,
                   nextId, ndata>>

\* Lines 87-96: the Ack is written to the joiner's socket, then the roster
\* is read from the registry.
JoinAck(c) ==
    /\ pc[c] = "join_ack"
    /\ ws_send(c, Ack(TRUE, Welcome(msg[c].username)), "join_list")
    /\ user_list' = [user_list EXCEPT ![c] =
                        IF pc'[c] = "join_list" THEN get_user_list(users) ELSE @]
    /\ UNCHANGED <<user, msg, new_user, users, last_frame, connections, queue,
                   nextId, ndata>>

\* Lines 97-101: broadcast_to_all(UserList(user_list)).
JoinList(c) ==
    /\ pc[c] = "join_list"
    /\ queue' = broadcast_to_all(queue, connections, UserListMsg(user_list[c]))
    /\ user_list' = [user_list EXCEPT ![c] = <<>>]
    /\ pc' = [pc EXCEPT ![c] = "join_notify"]
    /\ UNCHANGED <<user, msg, new_user, users, last_frame, connections, sock, nextId, ndata>>

\* Lines 104-112: broadcast_except(UserJoined, user_id).
JoinNotify(c) ==
    /\ pc[c] = "join_notify"
    /\ queue' = broadcast_except(queue, connections, UserJoined(new_user[c]),
                                 new_user[c].id)
    /\ new_user' = [new_user EXCEPT ![c] = None]
    /\ msg' = [msg EXCEPT ![c] = None]
    /\ pc' = [pc EXCEPT ![c] = "loop"]
    /\ UNCHANGED <<user, user_list, users, last_frame, connections, sock, nextId, ndata>>

\* User::update_frame
update_frame(lf, u, f) == [lf EXCEPT ![u.id] = Some(f)]

\* The sender tag of a task that has no user.
Nobody == [id |-> 0, username |-> "", connected_at |-> 0]

\* A faulty Frame arm without `if let Some(ref u) = user`.
Frame_anyone(c) ==
    /\ pc[c] = "frame"
    /\ LET u == IF user[c] # None THEN user[c] ELSE Nobody
       IN  /\ last_frame' = IF user[c] # None
                            THEN update_frame(last_frame, u, msg[c].frame)
                            ELSE last_frame
           /\ queue' = broadcast_to_all(queue, connections, FrameMsg(u, msg[c].frame))
    /\ msg' = [msg EXCEPT ![c] = None]
    /\ pc' = [pc EXCEPT ![c] = "loop"]
    /\ UNCHANGED <<user, new_user, user_list, users, connections, sock,
                   nextId, ndata>>

\* A faulty Frame arm that tags the broadcast with the user_id and username
\* of the inbound message.
Frame_claimed(c) ==
    /\ pc[c] = "frame"
    /\ IF user[c] # None
       THEN /\ last_frame' = update_frame(last_frame, user[c], msg[c].frame)
            /\ \E id \in ClaimedIds, n \in Names :
                  queue' = broadcast_to_all(queue, connections,
                              FrameMsg([id |-> id, username |-> n], msg[c].frame))
       ELSE UNCHANGED <<last_frame, queue>>
    /\ msg' = [msg EXCEPT ![c] = None]
    /\ pc' = [pc EXCEPT ![c] = "loop"]
    /\ UNCHANGED <<user, new_user, user_list, users, connections, sock,
                   nextId, ndata>>

\* Message::Frame, lines 114-129.
Frame(c) ==
    /\ pc[c] = "frame"
    /\ IF user[c] # None
       THEN /\ last_frame' = update_frame(last_frame, user[c], msg[c].frame)
            /\ queue' = broadcast_to_all(queue, connections,
                                         FrameMsg(user[c], msg[c].frame))
       ELSE UNCHANGED <<last_frame, queue>>
    /\ msg' = [msg EXCEPT ![c] = None]
    /\ pc' = [pc EXCEPT ![c] = "loop"]
    /\ UNCHANGED <<user, new_user, user_list, users, connections, sock,
                   nextId, ndata>>

\* A faulty Chat arm without `if let Some(ref u) = user`.
Chat_anyone(c) ==
    /\ pc[c] = "chat"
    /\ LET u == IF user[c] # None THEN user[c] ELSE Nobody
       IN  queue' = broadcast_to_all(queue, connections, ChatMsg(u, msg[c].content))
    /\ msg' = [msg EXCEPT ![c] = None]
    /\ pc' = [pc EXCEPT ![c] = "loop"]
    /\ UNCHANGED <<user, new_user, user_list, users, last_frame, connections,
                   sock, nextId, ndata>>

\* Message::Chat, lines 130-143.
Chat(c) ==
    /\ pc[c] = "chat"
    /\ IF user[c] # None
       THEN queue' = broadcast_to_all(queue, connections,
                                      ChatMsg(user[c], msg[c].content))
       ELSE UNCHANGED queue
    /\ msg' = [msg EXCEPT ![c] = None]
    /\ pc' = [pc EXCEPT ![c] = "loop"]
    /\ UNCHANGED <<user, new_user, user_list, users, last_frame, connections,
                   sock, nextId, ndata>>

\* A faulty Ping arm that sends the Pong through the channels.
Ping_broadcast(c) ==
    /\ pc[c] = "ping"
    /\ queue' = broadcast_to_all(queue, connections, Pong)
    /\ pc' = [pc EXCEPT ![c] = "loop"]
    /\ UNCHANGED <<user, msg, new_user, user_list, users, last_frame,
                   connections, sock, nextId, ndata>>

\* Message::Ping, lines 144-148.
Ping(c) ==
    /\ pc[c] = "ping"
    /\ ws_send(c, Pong, "loop")
    /\ UNCHANGED <<user, msg, new_user, user_list, users, last_frame,
                   connections, queue, nextId, ndata>>

\* A faulty catch-all arm that drops the connection (`break`).
Ignore_break(c) ==
    /\ pc[c] = "ignore"
    /\ msg' = [msg EXCEPT ![c] = None]
    /\ IF user[c] # None
       THEN pc' = [pc EXCEPT ![c] = "clean_remove"] /\ UNCHANGED queue
       ELSE Return(c)
    /\ UNCHANGED <<user, new_user, user_list, users, last_frame, connections,
                   sock, nextId, ndata>>

\* The `_ => {}` arm and the parse error arm, lines 149-155.
Ignore(c) ==
    /\ pc[c] = "ignore"
    /\ msg' = [msg EXCEPT ![c] = None]
    /\ pc' = [pc EXCEPT ![c] = "loop"]
    /\ UNCHANGED <<user, new_user, user_list, users, last_frame, connections,
                   queue, sock, nextId, ndata>>

\* A websocket message that is neither Text nor Close (line 178).
RecvOther(c) ==
    /\ pc[c] = "loop"
    /\ UNCHANGED vars

\* select!: ws_rx.next() yields Close (line 157).  With a user the arm runs
\* the disconnect steps, then breaks; without, it only breaks, and the
\* cleanup after the loop has nothing to do.
RecvClose(c) ==
    /\ pc[c] = "loop"
    /\ IF user[c] # None
       THEN pc' = [pc EXCEPT ![c] = "close_remove"] /\ UNCHANGED queue
       ELSE Return(c)
    /\ UNCHANGED <<user, msg, new_user, user_list, users, last_frame,
                   connections, sock, nextId, ndata>>

\* select!: ws_rx.next() yields Some(Err) or None (lines 181-188): break.
RecvEnd(c) ==
    /\ pc[c] = "loop"
    /\ IF user[c] # None
       THEN pc' = [pc EXCEPT ![c] = "clean_remove"] /\ UNCHANGED queue
       ELSE Return(c)
    /\ UNCHANGED <<user, msg, new_user, user_list, users, last_frame,
                   connections, sock, nextId, ndata>>

\* The five disconnect steps, written twice in handle_connection: in the
\* Close arm (lines 158-175, from "close_remove" to "clean_remove") and
\* after the loop (lines 201-214, from "clean_remove" to the return).

\* user_manager.remove_user(&u.id)
DiscRemove(c, at, to) ==
    /\ pc[c] = at
    /\ users' = remove_user(users, user[c].id)
    /\ pc' = [pc EXCEPT ![c] = to]
    /\ UNCHANGED <<user, msg, new_user, user_list, last_frame, connections,
                   queue, sock, nextId, ndata>>

\* connections.write().remove(&u.id)
DiscDrop(c, at, to) ==
    /\ pc[c] = at
    /\ connections' = [id \in DOMAIN connections \ {user[c].id} |-> connections[id]]
    /\ pc' = [pc EXCEPT ![c] = to]
    /\ UNCHANGED <<user, msg, new_user, user_list, users, last_frame, queue,
                   sock, nextId, ndata>>

\* broadcast_to_all(UserLeft)
DiscLeft(c, at, to) ==
    /\ pc[c] = at
    /\ queue' = broadcast_to_all(queue, connections, UserLeft(user[c]))
    /\ pc' = [pc EXCEPT ![c] = to]
    /\ UNCHANGED <<user, msg, new_user, user_list, users, last_frame,
                   connections, sock, nextId, ndata>>

\* user_manager.get_user_list()
DiscSnap(c, at, to) ==
    /\ pc[c] = at
    /\ user_list' = [user_list EXCEPT ![c] = get_user_list(users)]
    /\ pc' = [pc EXCEPT ![c] = to]
    /\ UNCHANGED <<user, msg, new_user, users, last_frame, connections, queue,
                   sock, nextId, ndata>>

\* broadcast_to_all(UserList(user_list)) in the Close arm, then break.
CloseList(c) ==
    /\ pc[c] = "close_list"
    /\ queue' = broadcast_to_all(queue, connections, UserListMsg(user_list[c]))
    /\ user_list' = [user_list EXCEPT ![c] = <<>>]
    /\ pc' = [pc EXCEPT ![c] = "clean_remove"]
    /\ UNCHANGED <<user, msg, new_user, users, last_frame, connections, sock, nextId, ndata>>

\* broadcast_to_all(UserList(user_list)) after the loop, then Ok(()).
CleanList(c) ==
    /\ pc[c] = "clean_list"
    /\ LET q == broadcast_to_all(queue, connections, UserListMsg(user_list[c]))
       IN  queue' = [q EXCEPT ![c] = <<>>]
    /\ user_list' = [user_list EXCEPT ![c] = <<>>]
    /\ pc' = [pc EXCEPT ![c] = "done"]
    /\ UNCHANGED <<user, msg, new_user, users, last_frame, connections, sock, nextId, ndata>>

Close(c) ==
    \/ DiscRemove(c, "close_remove", "close_drop")
    \/ DiscDrop(c, "close_drop", "close_left")
    \/ DiscLeft(c, "close_left", "close_snap")
    \/ DiscSnap(c, "close_snap", "close_list")
    \/ CloseList(c)

Cleanup(c) ==
    \/ DiscRemove(c, "clean_remove", "clean_drop")
    \/ DiscDrop(c, "clean_drop", "clean_left")
    \/ DiscLeft(c, "clean_left", "clean_snap")
    \/ DiscSnap(c, "clean_snap", "clean_list")
    \/ CleanList(c)

\* A faulty delivery by one writer for all sockets: while a write on one
\* socket does not complete, nothing is written to any other.
Deliver_one_writer(c) ==
    /\ \A d \in Conns : pc[d] # "send_blocked"
    /\ pc[c] = "loop"
    /\ queue[c] # <<>>
    /\ ws_send(c, Head(queue[c]), "loop")
    /\ queue' = IF pc'[c] = "send_blocked" THEN queue
                ELSE [queue EXCEPT ![c] = Tail(@)]
    /\ UNCHANGED <<user, msg, new_user, user_list, users, last_frame,
                   connections, nextId, ndata>>

\* select!: rx.recv() yields the head of the task's channel, which is
\* written to the socket (lines 192-196).  A write that never completes
\* keeps its message: it is shown as staying at the head of the channel.
Deliver(c) ==
    /\ pc[c] = "loop"
    /\ queue[c] # <<>>
    /\ ws_send(c, Head(queue[c]), "loop")
    /\ queue' = IF pc'[c] = "send_blocked" THEN queue
                ELSE [queue EXCEPT ![c] = Tail(@)]
    /\ UNCHANGED <<user, msg, new_user, user_list, users, last_frame,
                   connections, nextId, ndata>>

\* A task inside a handler (or the steps after the loop).
Running(d) == pc[d] \notin {"idle", "loop", "send_blocked", "done"}

\* An idle task whose channel holds more than MaxBacklog messages.
Lagging(d) == pc[d] = "loop" /\ Len(queue[d]) > MaxBacklog

\* Task c may take a step: no other task is inside a handler.
Turn(c) == \A d \in Conns \ {c} : ~Running(d)

\* A task may read its socket: no idle task lags behind.
MayRead == \A d \in Conns : ~Lagging(d)

Next ==
    \E c \in Conns :
        \/ Turn(c) /\ Accept(c) /\ UNCHANGED NotHub
        \/ Turn(c) /\ MayRead /\ RecvText(c) /\ UNCHANGED NotHub
        \/ Turn(c) /\ MayRead /\ RecvOther(c) /\ UNCHANGED NotHub
        \/ Turn(c) /\ MayRead /\ RecvClose(c) /\ UNCHANGED NotHub
        \/ Turn(c) /\ MayRead /\ RecvEnd(c) /\ UNCHANGED NotHub
        \/ Turn(c) /\ JoinAdd(c) /\ UNCHANGED NotHub
        \/ Turn(c) /\ JoinInsert(c) /\ UNCHANGED NotHub
        \/ Turn(c) /\ JoinAck(c) /\ UNCHANGED NotHub
        \/ Turn(c) /\ JoinList(c) /\ UNCHANGED NotHub
        \/ Turn(c) /\ JoinNotify(c) /\ UNCHANGED NotHub
        \/ Turn(c) /\ Frame(c) /\ UNCHANGED NotHub
        \/ Turn(c) /\ Chat(c) /\ UNCHANGED NotHub
        \/ Turn(c) /\ Ping(c) /\ UNCHANGED NotHub
        \/ Turn(c) /\ Ignore(c) /\ UNCHANGED NotHub
        \/ Turn(c) /\ Close(c) /\ UNCHANGED NotHub
        \/ Turn(c) /\ Cleanup(c) /\ UNCHANGED NotHub
        \/ Turn(c) /\ Deliver(c) /\ UNCHANGED NotHub

Spec == Init /\ [][Next]_vars

\* ------------------------------------------------------------- scheduling
\* Joins and data messages read in the runs of LiveSpec.
LiveJoins == 2
LiveData == 1

\* A task inside a handler takes its next step.
Handle(c) ==
    \/ JoinAdd(c) \/ JoinInsert(c) \/ JoinAck(c) \/ JoinList(c) \/ JoinNotify(c)
    \/ Frame(c) \/ Chat(c) \/ Ping(c) \/ Ignore(c) \/ Close(c) \/ Cleanup(c)

\* The steps of Next that keep within the smaller budget.
LiveNext ==
    /\ Next
    /\ nextId' + Cardinality({d \in Conns : pc'[d] = "join_add"}) <= LiveJoins + 1
    /\ ndata' <= LiveData

\* The tokio runtime polls every task that is ready, so a task inside a
\* handler goes on.  select! picks at random among its ready branches, so a
\* task whose channel holds a message again and again gets to write it,
\* however many inbound messages are ready too.  What the clients send, and
\* when, is left open.
LiveSpec ==
    /\ Init
    /\ [][LiveNext]_vars
    /\ \A c \in Conns : WF_vars(Turn(c) /\ Handle(c) /\ UNCHANGED NotHub)
    /\ \A c \in Conns : SF_vars(Turn(c) /\ Deliver(c) /\ UNCHANGED NotHub)

\* -------------------------------------------------------- concurrent tasks
\* The tasks run concurrently (multi-threaded runtime): between two steps of
\* one handler any other task may take steps.  The clients send Join and
\* leave, LiveJoins joins in all.
RaceNext ==
    /\ \E c \in Conns :
          \/ Accept(c)
          \/ MayRead /\ RecvText(c) /\ pc'[c] = "join_add"
          \/ MayRead /\ (RecvClose(c) \/ RecvEnd(c))
          \/ JoinAdd(c) \/ JoinInsert(c) \/ JoinAck(c) \/ JoinList(c) \/ JoinNotify(c)
          \/ Close(c) \/ Cleanup(c)
          \/ Deliver(c)
    /\ nextId' + Cardinality({d \in Conns : pc'[d] = "join_add"}) <= LiveJoins + 1
    /\ UNCHANGED NotHub

RaceSpec == Init /\ [][RaceNext]_vars

\* ---------------------------------------------------------- failing writes
\* What sock[c] records of a ws_tx.send that returned Err: the message is
\* lost.
WriteError(m) == [type |-> "WriteError", lost |-> m]

\* The writes recorded so far: socket and position.
Writes == UNION {{<<c, i>> : i \in 1..Len(sock[c])} : c \in Conns}

\* At most MaxFaults writes fail in a run.
MayFail ==
    Cardinality({w \in Writes : sock[w[1]][w[2]].type = "WriteError"}) < MaxFaults

\* Lines 192-196 with a failing write: rx.recv() yields the head of the
\* channel, ws_tx.send returns Err, `let _ =` drops it, the loop goes on.
DeliverFail(c) ==
    /\ MayFail
    /\ pc[c] = "loop"
    /\ queue[c] # <<>>
    /\ queue' = [queue EXCEPT ![c] = Tail(@)]
    /\ sock' = [sock EXCEPT ![c] = Append(@, WriteError(Head(queue[c])))]
    /\ UNCHANGED <<pc, user, msg, new_user, user_list, users, last_frame,
                   connections, nextId, ndata>>

\* Lines 87-96 with a failing write: the Ack is lost, `let _ =` drops the
\* Err, the Join arm goes on with the roster.
JoinAckFail(c) ==
    /\ MayFail
    /\ pc[c] = "join_ack"
    /\ sock' = [sock EXCEPT ![c] =
                   Append(@, WriteError(Ack(TRUE, Welcome(msg[c].username))))]
    /\ user_list' = [user_list EXCEPT ![c] = get_user_list(users)]
    /\ pc' = [pc EXCEPT ![c] = "join_list"]
    /\ UNCHANGED <<user, msg, new_user, users, last_frame, connections, queue,
                   nextId, ndata>>

\* The short runs of LiveSpec, with writes that may fail.
FailNext ==
    \/ LiveNext
    \/ \E c \in Conns : Turn(c) /\ DeliverFail(c) /\ UNCHANGED NotHub
    \/ \E c \in Conns : Turn(c) /\ JoinAckFail(c) /\ UNCHANGED NotHub

\* The fairness of LiveSpec; whether a write fails is left open.
FailSpec ==
    /\ Init
    /\ [][FailNext]_vars
    /\ \A c \in Conns : WF_vars(Turn(c) /\ Handle(c) /\ UNCHANGED NotHub)
    /\ \A c \in Conns : SF_vars(Turn(c) /\ Deliver(c) /\ UNCHANGED NotHub)

\* -------------------------------------------------------------- vocabulary
\* Everything task d has written or will write to its socket, in order: the
\* messages written, then the messages waiting in its channel.
Stream(d) == sock[d] \o queue[d]

\* The registered sessions served by the channel of task d.
Sessions(d) == Owned(connections, d)

\* What the step has appended to the channel of task d.
Added(d) == SubSeq(queue'[d], Len(queue[d]) + 1, Len(queue'[d]))

\* The step removed nothing from the channel of task d.
Kept(d) == Len(queue'[d]) >= Len(queue[d])
           /\ SubSeq(queue'[d], 1, Len(queue[d])) = queue[d]

\* m is a roster that lists the user with that id.
Lists(m, id) ==
    m.type = "UserList" /\ \E k \in 1..Len(m.list) : m.list[k].user_id = id

\* The step takes task c from one place of handle_connection to another.
Goes(c, from, to) == pc[c] = from /\ pc'[c] = to

\* ---------------------------------------------------------------------- C1
\* In every stream a UserJoined comes after a UserList that lists the user.
JoinOrder ==
    \A d \in Conns : \A j \in 1..Len(Stream(d)) :
        Stream(d)[j].type = "UserJoined"
        => \E i \in 1..(j - 1) : Lists(Stream(d)[i], Stream(d)[j].user_id)

\* The three sends of the Join arm: the Ack goes to the joiner's socket and
\* to no channel; the UserList goes once to every registered session, the
\* joiner's included, and lists the new user; the UserJoined goes once to
\* every registered session but the new one.
JoinSends ==
    \A c \in Conns :
        /\ Goes(c, "join_ack", "join_list")
           => /\ sock'[c] = Append(sock[c], Ack(TRUE, Welcome(new_user[c].username)))
              /\ queue' = queue
        /\ Goes(c, "join_list", "join_notify")
           => /\ new_user[c].id \in Sessions(c)
              /\ \A d \in Conns :
                    /\ Kept(d)
                    /\ Len(Added(d)) = IF Open(d) THEN Cardinality(Sessions(d)) ELSE 0
                    /\ \A k \in 1..Len(Added(d)) : Lists(Added(d)[k], new_user[c].id)
        /\ Goes(c, "join_notify", "loop")
           => \A d \in Conns :
                /\ Kept(d)
                /\ Len(Added(d)) = IF Open(d)
                                   THEN Cardinality(Sessions(d) \ {new_user[c].id})
                                   ELSE 0
                /\ \A k \in 1..Len(Added(d)) : Added(d)[k] = UserJoined(new_user[c])

\* C1: a Join is answered with an Ack written to the joiner, then a UserList
\* that lists the new user is enqueued to every registered session, then a
\* UserJoined to every registered session but the new one; so a session
\* receives a join's UserList before that join's UserJoined.
C1_JoinSequence == []JoinOrder /\ [][JoinSends]_vars

\* A session registered before a join has received that join's UserList and
\* then its UserJoined, and the joiner has received its Ack.
C1_Witness ==
    \E c \in Conns, d \in Conns :
        /\ c # d
        /\ user[c] # None
        /\ \E i \in 1..Len(sock[c]) : sock[c][i] = Ack(TRUE, Welcome(user[c].username))
        /\ \E j \in 1..Len(sock[d]) :
              /\ sock[d][j] = UserJoined(user[c])
              /\ \E i \in 1..(j - 1) : Lists(sock[d][i], user[c].id)

\* ---------------------------------------------------------------------- C2
\* A member: a live connection that serves at least one registered session.
Member(d) == Open(d) /\ Sessions(d) # {}

\* C2: for each Join every member is sent exactly one UserList, every member
\* other than the joiner exactly one UserJoined, and the joiner's own
\* connection is sent no UserJoined for its own join.
C2_OncePerMember ==
    [][\A c \in Conns :
        /\ Goes(c, "join_list", "join_notify")
           => \A d \in Conns : Member(d) => Len(Added(d)) = 1
        /\ Goes(c, "join_notify", "loop")
           => \A d \in Conns :
                Member(d) => Len(Added(d)) = IF d = c THEN 0 ELSE 1]_vars

\* ---------------------------------------------------------------------- C3
\* C3: a Frame or Chat submitted by a joined session puts exactly one Frame
\* (resp. Chat) with that payload in the channel of every member, the
\* submitter's included.
C3_OneCopyEach ==
    [][\A c \in Conns :
        user[c] # None
        => /\ Goes(c, "frame", "loop")
              => \A d \in Conns :
                    Member(d) => Added(d) = <<FrameMsg(user[c], msg[c].frame)>>
           /\ Goes(c, "chat", "loop")
              => \A d \in Conns :
                    Member(d) => Added(d) = <<ChatMsg(user[c], msg[c].content)>>]_vars

\* ---------------------------------------------------------------------- C4
\* The payload of a Frame or a Chat: the order in which the hub read it.
Payload(m) == IF m.type = "Frame" THEN m.frame ELSE m.content

IsData(m) == m.type \in {"Frame", "Chat"}

Observable == <<users, connections, last_frame, queue, sock>>

\* C5: a Frame or a Chat on a connection that has not joined changes neither
\* the registry, nor the connection table, nor a last_frame, nor a channel,
\* nor a socket, and the task goes back to its loop.
C5_UnjoinedDataNoEffect ==
    [][\A c \in Conns :
        (user[c] = None /\ pc[c] \in {"frame", "chat"} /\ pc'[c] # pc[c])
        => (pc'[c] = "loop" /\ UNCHANGED Observable)]_vars

\* Frames or chats have been read and handled, nobody has joined, and
\* nothing was written or enqueued anywhere.
C5_Witness ==
    /\ ndata > 0
    /\ nextId = 1
    /\ \A c \in Conns : pc[c] = "loop" /\ sock[c] = <<>> /\ queue[c] = <<>>

\* ---------------------------------------------------------------------- C6
\* C6 as stated: every message other than Join on a connection that has not
\* joined changes no state and sends nothing, not even to the sender.
C6_AllIgnoredBeforeJoin ==
    [][\A c \in Conns :
        (user[c] = None /\ pc[c] \in {"frame", "chat", "ping", "ignore"}
                        /\ pc'[c] # pc[c])
        => UNCHANGED Observable]_vars

\* C6, amended: a user enters the registry and a task gets its user only in
\* the Join arm; before a connection has joined, a Frame, a Chat and every
\* message of the ignored kinds change nothing and send nothing, and a Ping is
\* answered with a Pong written to the sender's socket alone.
C6_OnlyJoinRegisters ==
    [][/\ Len(users') > Len(users)
          => \E c \in Conns : Goes(c, "join_add", "join_insert") /\ msg[c].type = "Join"
       /\ \A c \in Conns :
            /\ (user[c] = None /\ user'[c] # None) => Goes(c, "join_insert", "join_ack")
            /\ (user[c] = None /\ pc[c] \in {"frame", "chat", "ignore"}
                               /\ pc'[c] # pc[c])
               => UNCHANGED Observable
            /\ (user[c] = None /\ Goes(c, "ping", "loop"))
               => /\ sock' = [sock EXCEPT ![c] = Append(@, Pong)]
                  /\ UNCHANGED <<users, connections, last_frame, queue>>]_vars

\* A connection that has not joined has been written a Pong.
C6_Witness ==
    \E c \in Conns :
        /\ user[c] = None
        /\ pc[c] = "loop"
        /\ \E i \in 1..Len(sock[c]) : sock[c][i] = Pong

\* ---------------------------------------------------------------------- C7
\* The task of the user with that id has enqueued its UserLeft and not yet
\* the UserList that follows.
Leaving(id) ==
    \E c \in Conns :
        /\ user[c] # None
        /\ user[c].id = id
        /\ pc[c] \in {"close_snap", "close_list", "clean_snap", "clean_list"}

\* In the stream of a live task a UserLeft is followed by a UserList that
\* does not list the user who left.
LeftThenList ==
    \A d \in Conns :
        Open(d)
        => \A j \in 1..Len(Stream(d)) :
              Stream(d)[j].type = "UserLeft"
              => \/ Leaving(Stream(d)[j].user_id)
                 \/ \E k \in (j + 1)..Len(Stream(d)) :
                       /\ Stream(d)[k].type = "UserList"
                       /\ ~Lists(Stream(d)[k], Stream(d)[j].user_id)

\* The UserLeft of a disconnect goes to every session still registered.
LeftToAll ==
    \A c \in Conns :
        (Goes(c, "close_left", "close_snap") \/ Goes(c, "clean_left", "clean_snap"))
        => /\ user[c].id \notin DOMAIN connections
           /\ \A d \in Conns :
                /\ Kept(d)
                /\ Len(Added(d)) = IF Open(d) THEN Cardinality(Sessions(d)) ELSE 0
                /\ \A k \in 1..Len(Added(d)) : Added(d)[k] = UserLeft(user[c])

\* C7: when a session disconnects, every session still registered is sent
\* UserLeft for it and, after that, a UserList that does not list it.
C7_LeftThenRoster == []LeftThenList /\ [][LeftToAll]_vars

\* A live peer has been written the UserLeft of a user whose task has
\* returned and, later, a UserList without that user.
C7_Witness ==
    \E c \in Conns, d \in Conns :
        /\ c # d
        /\ pc[c] = "done" /\ user[c] # None
        /\ pc[d] = "loop" /\ user[d] # None
        /\ \E j \in 1..Len(sock[d]) : \E k \in (j + 1)..Len(sock[d]) :
              /\ sock[d][j] = UserLeft(user[c])
              /\ sock[d][k].type = "UserList"
              /\ ~Lists(sock[d][k], user[c].id)

\* ---------------------------------------------------------------------- C8
\* How many times m stands in the sequence q.
Count(m, q) == Cardinality({i \in 1..Len(q) : q[i] = m})

\* C8: a departure, by Close frame or by the end of the stream, gives each
\* remaining session exactly one UserLeft: once the UserLeft of a departure
\* is enqueued, no stream holds more of them than the task has sessions.
C8_OneLeftPerDeparture ==
    [][\A c \in Conns :
        (Goes(c, "close_left", "close_snap") \/ Goes(c, "clean_left", "clean_snap"))
        => \A d \in Conns :
              Count(UserLeft(user[c]), sock'[d] \o queue'[d])
                  <= Cardinality(Sessions(d))]_vars

\* ---------------------------------------------------------------------- C9
\* The step is a broadcast of task c.
Broadcasting(c) ==
    /\ pc'[c] # pc[c]
    /\ \/ pc[c] \in {"join_list", "join_notify", "close_left", "close_list",
                     "clean_left", "clean_list"}
       \/ pc[c] \in {"frame", "chat"} /\ user[c] # None

\* The sessions of task d that a broadcast of task c addresses.
Targets(c, d) ==
    IF pc[c] = "join_notify" THEN Sessions(d) \ {new_user[c].id} ELSE Sessions(d)

\* C9: a broadcast puts its message in the channel of every addressed
\* session whose channel is open, whatever the other channels hold and
\* whether or not they are closed; it puts nothing in a closed channel, and
\* the broadcaster goes on.
C9_FanOutIsolation ==
    [][\A c \in Conns :
        Broadcasting(c)
        => \A d \in Conns :
              IF Open(d) /\ pc'[d] # "done"
              THEN Kept(d) /\ Len(Added(d)) = Cardinality(Targets(c, d))
              ELSE queue'[d] = <<>>]_vars

\* The table holds a session whose channel is closed, and a live peer has
\* been written a Frame or a Chat broadcast after that channel was closed.
C9_Witness ==
    \E d \in Conns :
        /\ pc[d] = "loop"
        /\ \E id \in DOMAIN connections : pc[connections[id]] = "done"
        /\ \E i \in 1..Len(sock[d]) : \E j \in (i + 1)..Len(sock[d]) :
           \E k \in (j + 1)..Len(sock[d]) :
              /\ sock[d][i].type = "UserLeft"
              /\ sock[d][j].type = "UserList"
              /\ IsData(sock[d][k])

\* --------------------------------------------------------------------- C10
\* The sequence q holds the Frame or Chat that the hub read as its k-th.
Has(q, k) == \E i \in 1..Len(q) : IsData(q[i]) /\ Payload(q[i]) = k

\* Task d has left its loop for good: it has returned, it runs the
\* disconnect steps, or its own write never completes.
Gone(d) ==
    pc[d] \in {"done", "send_blocked",
               "close_remove", "close_drop", "close_left", "close_snap", "close_list",
               "clean_remove", "clean_drop", "clean_left", "clean_snap", "clean_list"}

\* C10: while the write of peer p never completes, a Frame or Chat waiting in
\* the channel of another peer d is eventually written to the socket of d,
\* unless d itself leaves or stalls.
C10_StalledPeerNoDelay ==
    \A p \in Conns, d \in Conns, k \in 1..MaxData :
        (p # d /\ pc[p] = "send_blocked" /\ Has(queue[d], k))
        ~> (Has(sock[d], k) \/ Gone(d))

\* The write of p never completes, a broadcast has piled up in the channel
\* of p, and the same broadcast has been written to the socket of d.
C10_Witness ==
    \E p \in Conns, d \in Conns, k \in 1..MaxData :
        /\ p # d
        /\ pc[p] = "send_blocked"
        /\ Has(queue[p], k)
        /\ pc[d] = "loop"
        /\ Has(sock[d], k)

\* --------------------------------------------------------------------- C11
\* No channel holds a Pong.
NoPongQueued ==
    \A d \in Conns : \A i \in 1..Len(queue[d]) : queue[d][i] # Pong

\* The Ping arm writes one Pong to the requester's socket and touches
\* nothing else.
PingStep ==
    \A c \in Conns :
        (pc[c] = "ping" /\ pc'[c] # pc[c])
        => /\ UNCHANGED <<users, connections, last_frame, queue, user>>
           /\ \/ /\ pc'[c] = "loop"
                 /\ sock' = [sock EXCEPT ![c] = Append(@, Pong)]
              \/ /\ pc'[c] = "send_blocked"
                 /\ sock' = sock

\* C11: a Ping on any connection is answered with exactly one Pong written
\* to the requester's socket; the Pong is never put in a channel and no hub
\* state changes.
C11_PingPong == []NoPongQueued /\ [][PingStep]_vars

\* A joined connection, with a peer registered, has been written a Pong.
C11_Witness ==
    \E c \in Conns, d \in Conns :
        /\ c # d
        /\ user[c] # None /\ user[d] # None
        /\ pc[c] = "loop"
        /\ \E i \in 1..Len(sock[c]) : sock[c][i] = Pong

\* --------------------------------------------------------------------- C12
\* A write to the socket of task c has failed.
WriteFailed(c) == \E i \in 1..Len(sock[c]) : sock[c][i].type = "WriteError"

\* The user of task c is in the registry or in the connection table.
Registered(c) ==
    /\ user[c] # None
    /\ \/ user[c].id \in DOMAIN connections
       \/ \E i \in 1..Len(users) : users[i].id = user[c].id

\* C12: once a write to the socket of a joined peer has failed, the hub
\* removes that peer's session from the registry and the connection table
\* (unless the task is held in a later write that never completes).
C12_WriteFailureTearsDown ==
    \A c \in Conns :
        (WriteFailed(c) /\ Registered(c))
        ~> (~Registered(c) \/ pc[c] = "send_blocked")

\* --------------------------------------------------------------------- C13
\* Everything but pc and msg.
Rest == <<user, new_user, user_list, users, last_frame, connections, queue,
          sock, nextId, ndata>>

\* A task in its loop holds no inbound message.
IdleHoldsNothing == \A c \in Conns : pc[c] = "loop" => msg[c] = None

\* Reading and dropping a message of an ignored kind changes nothing: the
\* task is back in its loop in the state in which it read the message.
IgnoreSteps ==
    \A c \in Conns :
        /\ Goes(c, "loop", "ignore")
           => /\ UNCHANGED Rest
              /\ msg' = msg
              /\ pc' = [pc EXCEPT ![c] = "ignore"]
        /\ (pc[c] = "ignore" /\ pc'[c] # pc[c])
           => /\ UNCHANGED Rest
              /\ msg' = msg
              /\ pc' = [pc EXCEPT ![c] = "loop"]

\* C13: text that does not parse, and a UserList, UserJoined, UserLeft, Ack
\* or Pong from a client, is ignored: the connection stays open in the same
\* state, the registry and the channels are unchanged, and the task reads
\* its next message as before.
C13_IgnoredKinds == []IdleHoldsNothing /\ [][IgnoreSteps]_vars

\* A joined connection, with a peer registered, is dropping a message of an
\* ignored kind.
C13_Witness ==
    \E c \in Conns :
        /\ pc[c] = "ignore"
        /\ user[c] # None
        /\ Len(users) >= 2

\* --------------------------------------------------------------------- C14
\* C14: once handle_connection has returned, no session created on that
\* connection is left in the connection table or in the user registry.
C14_NothingLeftBehind ==
    \A c \in Conns :
        pc[c] = "done"
        => /\ Sessions(c) = {}
           /\ \A i \in 1..Len(users) :
                 users[i].id \in DOMAIN connections => connections[users[i].id] # c

\* --------------------------------------------------------------------- C15
\* The step broadcasts the roster that task c holds.
SendsRoster(c) ==
    \/ Goes(c, "join_list", "join_notify")
    \/ Goes(c, "close_list", "clean_remove")
    \/ Goes(c, "clean_list", "done")

\* C15: a UserList is the projection of the registry at the instant it is
\* enqueued, however the joins and disconnects of the tasks interleave.
C15_RosterIsCurrent ==
    [][\A c \in Conns : SendsRoster(c) => user_list[c] = get_user_list(users)]_vars

\* ---------------------------------------------------------------- C16
\* client.rs 73-123, the receiver task of a client: what one message read
\* from the socket does to the aggregator. A UserList replaces the roster
\* with the display names of the list, a Frame replaces the frame kept under
\* the sender's display name, a Chat is appended; every other message
\* changes nothing.
ClientInit == [connected_users |-> <<>>, last_frames |-> <<>>, chat_messages |-> <<>>]

\* A faulty receiver that appends the names of a UserList to the roster.
receive_append(cs, m) ==
    CASE m.type = "UserList" ->
            [cs EXCEPT !.connected_users =
                @ \o [i \in 1..Len(m.list) |-> m.list[i].username]]
      [] m.type = "Frame" ->
            [cs EXCEPT !.last_frames = (m.username :> m.frame) @@ @]
      [] m.type = "Chat" ->
            [cs EXCEPT !.chat_messages = Append(@, <<m.username, m.content>>)]
      [] OTHER -> cs

\* A faulty receiver that adds the name of a UserJoined to the roster.
receive_joined(cs, m) ==
    CASE m.type = "UserList" ->
            [cs EXCEPT !.connected_users =
                [i \in 1..Len(m.list) |-> m.list[i].username]]
      [] m.type = "UserJoined" ->
            [cs EXCEPT !.connected_users = Append(@, m.username)]
      [] m.type = "Frame" ->
            [cs EXCEPT !.last_frames = (m.username :> m.frame) @@ @]
      [] m.type = "Chat" ->
            [cs EXCEPT !.chat_messages = Append(@, <<m.username, m.content>>)]
      [] OTHER -> cs

\* A faulty receiver that keeps the first frame it got for a name.
receive_first(cs, m) ==
    CASE m.type = "UserList" ->
            [cs EXCEPT !.connected_users =
                [i \in 1..Len(m.list) |-> m.list[i].username]]
      [] m.type = "Frame" ->
            [cs EXCEPT !.last_frames = @ @@ (m.username :> m.frame)]
      [] m.type = "Chat" ->
            [cs EXCEPT !.chat_messages = Append(@, <<m.username, m.content>>)]
      [] OTHER -> cs

receive(cs, m) ==
    CASE m.type = "UserList" ->
            [cs EXCEPT !.connected_users =
                [i \in 1..Len(m.list) |-> m.list[i].username]]
      [] m.type = "Frame" ->
            [cs EXCEPT !.last_frames = (m.username :> m.frame) @@ @]
      [] m.type = "Chat" ->
            [cs EXCEPT !.chat_messages = Append(@, <<m.username, m.content>>)]
      [] OTHER -> cs

\* The aggregator of the client behind connection d after it has read every
\* message the hub has written to d's socket.
RECURSIVE ClientAfter(_)
ClientAfter(log) ==
    IF log = <<>> THEN ClientInit
    ELSE receive(ClientAfter(SubSeq(log, 1, Len(log) - 1)), log[Len(log)])

Client(d) == ClientAfter(sock[d])

\* The display names of the registry, in join order.
RosterNames == [i \in 1..Len(users) |-> users[i].username]

\* Every task is between two handlers with nothing left to write, and no
\* write is stuck: every peer has been sent all that was enqueued for it.
Settled ==
    /\ \A d \in Conns : pc[d] \in {"idle", "loop", "done"}
    /\ \A d \in Conns : pc[d] = "loop" => queue[d] = <<>>

\* Peer d had joined when the k-th data message was read: connected_at - id
\* is the number of data messages read before d's user was created.
JoinedBefore(d, k) == user[d].connected_at - user[d].id < k

\* C16: once every peer has been sent all that was enqueued for it, the
\* aggregator of every joined peer holds a roster equal to the display names
\* of the registry in join order, and under the name of every other joined
\* sender the frame that sender submitted last, if the peer had joined when
\* it was submitted.
C16_EndToEnd ==
    Settled =>
        \A d \in Conns : (pc[d] = "loop" /\ user[d] # None) =>
            /\ Client(d).connected_users = RosterNames
            /\ \A c \in Conns :
                  ( /\ c # d
                    /\ pc[c] = "loop" /\ user[c] # None
                    /\ last_frame[user[c].id] # None
                    /\ JoinedBefore(d, last_frame[user[c].id].some) )
                  => /\ user[c].username \in DOMAIN Client(d).last_frames
                     /\ Some(Client(d).last_frames[user[c].username])
                            = last_frame[user[c].id]

\* alice joined, then bob, then alice submitted a frame, and bob's aggregator
\* holds the roster alice, bob and alice's frame.
C16_Witness ==
    /\ Settled
    /\ RosterNames = <<"alice", "bob">>
    /\ \E c \in Conns, d \in Conns :
          /\ c # d
          /\ pc[c] = "loop" /\ pc[d] = "loop"
          /\ user[c] # None /\ user[d] # None
          /\ user[c].username = "alice" /\ user[d].username = "bob"
          /\ last_frame[user[c].id] # None
          /\ JoinedBefore(d, last_frame[user[c].id].some)
          /\ Client(d).connected_users = <<"alice", "bob">>
          /\ Some(Client(d).last_frames["alice"]) = last_frame[user[c].id]


\* ============================================================== webcam.rs
\* The capture bridge of one client: WebcamCapture::start spawns a thread
\* that runs capture_loop and hands the caller the receiving end of the frame
\* channel and the sending end of the command channel.  The client's sender
\* task (client.rs 127-158) polls the bridge with try_recv.

\* bounded::<AsciiFrame>(2) and bounded::<WebcamCommand>(1).
Capacity == 2
CmdSlots == 1
\* Frames the decoder yields in a run, and for one packet.
MaxFrames == 4
MaxBurst == 2

\* The value of `polled` before the first poll.
Unpolled == [unpolled |-> TRUE]

\* The sender `tx` lives in the thread's closure: the frame channel is
\* disconnected on the sending side once the thread has ended.
Closed == thread = "exited"

\* WebcamCapture::start: create the channels, spawn the thread, return
\* Ok(Self).  Whether the device of the configuration can be opened is the
\* caller's input.
start ==
    /\ bridge = "none"
    /\ \E d \in {"good", "bad"} : device' = d
    /\ thread' = "open"
    /\ bridge' = "held"
    /\ UNCHANGED <<outcome, packet, avail, sending, produced, frames, cmd, got, polled>>
    /\ UNCHANGED NotCam

\* capture_loop, lines 76-157: open the device; on failure return Err, which
\* the thread's closure prints.
capture_loop ==
    /\ thread = "open"
    /\ IF device = "good"
       THEN thread' = "setup" /\ UNCHANGED outcome
       ELSE thread' = "exited" /\ outcome' = "open_error"
    /\ UNCHANGED <<device, bridge, packet, avail, sending, produced, frames, cmd, got, polled>>
    /\ UNCHANGED NotCam

\* process_frames, lines 166-201: find the video stream, build the decoder
\* and the scaler; each may fail and return Err.
process_frames ==
    /\ thread = "setup"
    /\ \/ thread' = "packets" /\ UNCHANGED outcome
       \/ thread' = "exited" /\ outcome' = "setup_error"
    /\ UNCHANGED <<device, bridge, packet, avail, sending, produced, frames, cmd, got, polled>>
    /\ UNCHANGED NotCam

\* Line 204, `for (_stream, packet) in ictx.packets()`: the stream ends and
\* process_frames returns Ok(()), or the next packet arrives: a packet of
\* another stream, a packet the decoder rejects, or a video packet for which
\* the decoder will yield n frames.
next_packet ==
    /\ thread = "packets"
    /\ \/ /\ thread' = "exited"
          /\ outcome' = "ended"
          /\ UNCHANGED <<packet, avail>>
       \/ /\ \E k \in {"other", "bad", "video"} :
                /\ packet' = k
                /\ \E n \in 0..MaxBurst :
                      /\ k # "video" => n = 0
                      /\ produced + n <= MaxFrames
                      /\ avail' = n
          /\ thread' = "check"
          /\ UNCHANGED outcome
    /\ UNCHANGED <<device, bridge, sending, produced, frames, cmd, got, polled>>
    /\ UNCHANGED NotCam

\* A faulty check that never looks at the command channel.
stop_requested_never(c) == FALSE

\* Line 206, cmd_rx.try_recv().is_ok(): a command is in the channel.
stop_requested(c) == c # <<>>

\* Lines 206-220: break on a command; skip a packet of another stream and a
\* packet the decoder rejects.
check_stop ==
    /\ thread = "check"
    /\ IF stop_requested(cmd)
       THEN /\ cmd' = Tail(cmd)
            /\ thread' = "exited"
            /\ outcome' = "stopped"
            /\ UNCHANGED packet
       ELSE /\ IF packet = "video"
               THEN thread' = "decode" /\ UNCHANGED packet
               ELSE thread' = "packets" /\ packet' = "none"
            /\ UNCHANGED <<cmd, outcome>>
    /\ UNCHANGED <<device, bridge, avail, sending, produced, frames, got, polled>>
    /\ UNCHANGED NotCam

\* Lines 222-234, `while let Ok(_) = decoder.receive_frame(..)`: no frame
\* left, back to the packets; otherwise pace, scale (which may fail and
\* return Err) and convert the next frame.
receive_frame ==
    /\ thread = "decode"
    /\ IF avail = 0
       THEN /\ thread' = "packets"
            /\ packet' = "none"
            /\ UNCHANGED <<outcome, avail, sending, produced>>
       ELSE \/ /\ thread' = "exited"
               /\ outcome' = "scale_error"
               /\ UNCHANGED <<packet, avail, sending, produced>>
            \/ /\ produced' = produced + 1
               /\ sending' = produced + 1
               /\ avail' = avail - 1
               /\ thread' = "send"
               /\ UNCHANGED <<packet, outcome>>
    /\ UNCHANGED <<device, bridge, frames, cmd, got, polled>>
    /\ UNCHANGED NotCam

\* A faulty channel that takes a frame however many it holds.
has_room_always(q) == TRUE

\* A bounded channel takes a message while it holds fewer than its capacity.
has_room(q) == Len(q) < Capacity

\* Lines 237-242, tx.send(frame): Err when the receiver is gone, and the
\* thread returns Ok(()); otherwise the call returns once the frame is in the
\* channel, and blocks while the channel is full.
tx_send ==
    /\ thread = "send"
    /\ IF bridge = "dropped"
       THEN /\ thread' = "exited"
            /\ outcome' = "receiver_gone"
            /\ UNCHANGED frames
       ELSE /\ has_room(frames)
            /\ frames' = Append(frames, sending)
            /\ thread' = "decode"
            /\ UNCHANGED outcome
    /\ sending' = 0
    /\ UNCHANGED <<device, bridge, packet, avail, produced, cmd, got, polled>>
    /\ UNCHANGED NotCam

\* Receiver::try_recv of the frame channel: the oldest message, or the
\* reason there is none.
channel_try_recv(q, disconnected) ==
    IF q # <<>> THEN [ok |-> Head(q)]
    ELSE IF disconnected THEN [err |-> "Disconnected"]
    ELSE [err |-> "Empty"]

\* Result::ok
ok(r) == IF "ok" \in DOMAIN r THEN Some(r.ok) ELSE None

\* A faulty try_recv that returns the oldest frame and leaves it in the
\* channel.
take_peek(q) == q

\* What try_recv leaves in the channel.
take(q) == IF q # <<>> THEN Tail(q) ELSE q

\* WebcamCapture::try_recv, lines 250-252, called by the client's sender
\* task (client.rs 129).
try_recv ==
    /\ bridge = "held"
    /\ polled' = ok(channel_try_recv(frames, Closed))
    /\ frames' = take(frames)
    /\ got' = IF frames # <<>> THEN Append(got, Head(frames)) ELSE got
    /\ UNCHANGED <<device, bridge, thread, outcome, packet, avail, sending, produced, cmd>>
    /\ UNCHANGED NotCam

\* The holder of the command sender (WebcamCapture._sender) puts Stop in the
\* command channel while the thread holds the receiving end.
send_stop ==
    /\ bridge = "held"
    /\ thread # "exited"
    /\ Len(cmd) < CmdSlots
    /\ cmd' = Append(cmd, "Stop")
    /\ UNCHANGED <<device, bridge, thread, outcome, packet, avail, sending, produced,
                   frames, got, polled>>
    /\ UNCHANGED NotCam

\* The client's sender task ends (client.rs 145-148) and drops the bridge:
\* the receiver of the frame channel is gone and the frames in the channel
\* are discarded.
drop_bridge ==
    /\ bridge = "held"
    /\ bridge' = "dropped"
    /\ frames' = <<>>
    /\ UNCHANGED <<device, thread, outcome, packet, avail, sending, produced, cmd,
                   got, polled>>
    /\ UNCHANGED NotCam

BridgeNext ==
    \/ start
    \/ capture_loop
    \/ process_frames
    \/ next_packet
    \/ check_stop
    \/ receive_frame
    \/ tx_send
    \/ try_recv
    \/ send_stop
    \/ drop_bridge

BridgeSpec == Init /\ [][BridgeNext]_vars

\* The capture thread is an operating-system thread and goes on whenever it
\* can; the source delivers its next packet or ends; the client's sender
\* task polls every 33 ms for as long as it holds the bridge.
BridgeLiveSpec ==
    /\ Init
    /\ [][BridgeNext]_vars
    /\ WF_vars(capture_loop)
    /\ WF_vars(process_frames)
    /\ WF_vars(next_packet)
    /\ WF_vars(check_stop)
    /\ WF_vars(receive_frame)
    /\ WF_vars(tx_send)
    /\ WF_vars(try_recv)


\* ---------------------------------------------------------------- C17
\* The frames converted so far, in production order.
Production == [i \in 1..produced |-> i]

\* The frame the producer holds in tx.send, if any.
InSend == IF sending # 0 THEN <<sending>> ELSE <<>>

\* The producer stands in tx.send and the channel is full.
Blocked == thread = "send" /\ bridge = "held" /\ Len(frames) = Capacity

FrameQueueBounded == Len(frames) <= Capacity

\* For as long as the caller holds the bridge: what the consumer has
\* received, then what the channel holds, then the frame in tx.send, is the
\* production so far.
NoGapNoDuplicate ==
    bridge = "held" => got \o frames \o InSend = Production

\* A blocked producer stays in tx.send with its frame, and the channel loses
\* nothing but what the consumer takes from its head.
BlocksWhenFull ==
    Blocked => /\ thread' = "send"
               /\ sending' = sending
               /\ \/ frames' = frames
                  \/ frames' = Tail(frames) /\ got' = Append(got, Head(frames))
                  \/ bridge' = "dropped"

\* C17: the frame channel never holds more than 2 frames; a producer that
\* finds it full blocks in send and drops or overwrites nothing; the consumer
\* receives the frames in production order, without gap or duplicate.
C17_BoundedFrameQueue ==
    /\ [](FrameQueueBounded /\ NoGapNoDuplicate)
    /\ [][BlocksWhenFull]_vars

\* The producer is blocked on a full channel after the consumer has already
\* received frames.
C17_Witness == Blocked /\ got # <<>> /\ NoGapNoDuplicate


\* ---------------------------------------------------------------- C18
\* A Stop command is in the command channel.
StopPending == cmd # <<>>

\* The frame channel is closed and holds nothing.
Drained == Closed /\ frames = <<>>

\* Once the channel is closed and drained it stays so, and a poll returns
\* None.
DrainedStaysEmpty ==
    Drained => /\ Drained'
               /\ polled' # polled => polled' = None
               /\ got' = got

\* C18: once a Stop command is in the command channel the producer thread
\* eventually leaves its loop and ends, which closes the frame channel; once
\* the buffered frames are drained every poll returns None, for good.
C18_CooperativeShutdown ==
    /\ StopPending ~> Closed
    /\ [][DrainedStaysEmpty]_vars

\* The thread has ended on a Stop command, the consumer has received the
\* frames that were buffered and its last poll returned None.
C18_Witness ==
    /\ outcome = "stopped"
    /\ bridge = "held"
    /\ Drained
    /\ got = Production /\ got # <<>>
    /\ polled = None


\* ---------------------------------------------------------------- C19
\* C19: when the device cannot be opened, start fails and the caller holds
\* no bridge for it.
C19_OpenFailureFailsStart == outcome = "open_error" => bridge = "none"

\* ---------------------------------------------------------------- C20
\* The packet stream has ended and the caller still holds the bridge.
StreamEnded == outcome = "ended" /\ bridge = "held"

\* After the end of the stream the thread has ended, the channel is closed
\* and what the consumer has received and what is buffered is the whole
\* production, in order; a poll does not block.
EndClosesChannel ==
    StreamEnded => /\ Closed
                   /\ got \o frames = Production
                   /\ ENABLED try_recv

\* After the end of the stream a poll returns the oldest buffered frame, or
\* None when nothing is buffered.
PollAfterEnd ==
    (StreamEnded /\ polled' # polled) =>
        polled' = IF frames # <<>> THEN Some(Head(frames)) ELSE None

\* C20: when the packet stream ends the producer ends and the frame channel
\* closes; the consumer that keeps polling obtains every buffered frame, in
\* order, and from then on every try_recv returns None at once.
C20_StreamEnd ==
    /\ []EndClosesChannel
    /\ [][PollAfterEnd]_vars
    /\ StreamEnded ~> (bridge = "dropped" \/ (Drained /\ got = Production))
    /\ [][(StreamEnded /\ Drained) => (Drained' /\ (polled' # polled => polled' = None))]_vars

\* The stream has ended with frames in the channel, and the consumer has
\* since received all of them and been told None.
C20_Witness ==
    /\ StreamEnded
    /\ Drained
    /\ Len(got) >= Capacity
    /\ got = Production
    /\ polled = None


\* =============================================================== ascii.rs
\* Rust indexes from 0, a TLA+ sequence from 1.
At(s, i) == s[i + 1]
Put(s, i, v) == [s EXCEPT ![i + 1] = v]
Min(a, b) == IF a <= b THEN a ELSE b
Max(a, b) == IF a >= b THEN a ELSE b

RECURSIVE Pow2(_)
Pow2(n) == IF n = 0 THEN 1 ELSE 2 * Pow2(n - 1)

\* Number of binary digits of n.
RECURSIVE BitLen(_)
BitLen(n) == IF n = 0 THEN 0 ELSE 1 + BitLen(n \div 2)

\* A non-negative f32 is [m, k] and stands for m / 2^k, with m = 0 or a
\* 24-bit significand, 2^23 <= m < 2^24.
F32Zero == [m |-> 0, k |-> 0]

\* Round q + rem/den (in units of 2^-k) to a 24-bit significand, to nearest,
\* ties to even.
F32Round(q, rem, den, k) ==
    LET up == 2 * rem > den \/ (2 * rem = den /\ q % 2 = 1)
        q1 == IF up THEN q + 1 ELSE q
    IN  IF q1 = 16777216 THEN [m |-> 8388608, k |-> k - 1] ELSE [m |-> q1, k |-> k]

\* f * (r as f32) for a byte r: the exact product, at most 32 bits, is kept
\* in two parts A * 2^12 + B and rounded to 24 bits.
f32_mul(f, r) ==
    IF r = 0 \/ f.m = 0 THEN F32Zero
    ELSE LET lo == (f.m % 4096) * r
             A == (f.m \div 4096) * r + lo \div 4096
             B == lo % 4096
             s == IF A >= 4096 THEN BitLen(A) - 12 ELSE 0
         IN  F32Round(A * Pow2(12 - s) + B \div Pow2(s), B % Pow2(s), Pow2(s), f.k - s)

\* a + b in f32: the smaller operand is split at the unit of the larger.
f32_add(a, b) ==
    IF a.m = 0 THEN b
    ELSE IF b.m = 0 THEN a
    ELSE LET aBig == a.k < b.k \/ (a.k = b.k /\ a.m >= b.m)
             big == IF aBig THEN a ELSE b
             small == IF aBig THEN b ELSE a
             d == small.k - big.k
         IN  IF d >= 26 THEN big
             ELSE LET S == big.m + small.m \div Pow2(d)
                      rem == small.m % Pow2(d)
                  IN  IF S < 16777216
                      THEN F32Round(S, rem, Pow2(d), big.k)
                      ELSE F32Round(S \div 2, (S % 2) * Pow2(d) + rem, Pow2(d + 1), big.k - 1)

\* y.min(255.0) as u8: the integer part, at most 255.
f32_min255_as_u8(y) ==
    IF y.m = 0 \/ y.k > 30 THEN 0
    ELSE IF y.k < 0 THEN 255
    ELSE Min(y.m \div Pow2(y.k), 255)

\* The f32 literals 0.299, 0.587 and 0.114.
Rec601R == [m |-> 10032775, k |-> 25]
Rec601G == [m |-> 9848226, k |-> 24]
Rec601B == [m |-> 15300821, k |-> 27]

\* PALETTE, as bytes.
PALETTE ==
    << 32, 46, 39, 96, 94, 34, 44, 58, 59, 73, 108, 33, 105, 62, 60, 126, 43, 95,
       45, 63, 93, 91, 125, 123, 49, 41, 40, 124, 92, 116, 102, 106, 114, 120,
       110, 117, 118, 99, 122, 88, 89, 85, 74, 67, 76, 81, 48, 79, 90, 109, 119,
       113, 112, 100, 98, 107, 104, 97, 111, 42, 35, 77, 87, 38, 56, 37, 66, 64,
       36 >>

\* A faulty luminance that leaves out the blue term.
luminance_no_blue(r, g, b) ==
    f32_min255_as_u8(f32_add(f32_mul(Rec601R, r), f32_mul(Rec601G, g)))

\* luminance: 0.299 * r + 0.587 * g + 0.114 * b in f32, summed left to right.
luminance(r, g, b) ==
    f32_min255_as_u8(f32_add(f32_add(f32_mul(Rec601R, r), f32_mul(Rec601G, g)),
                             f32_mul(Rec601B, b)))

\* A faulty index that scales by the palette length.
glyph_index_len(y) == Min((y * Len(PALETTE)) \div 255, Len(PALETTE) - 1)

\* ascii_for, lines 18-19: the palette index for luminance y.
glyph_index(y) == Min((y * (Len(PALETTE) - 1)) \div 255, Len(PALETTE) - 1)

ascii_for(r, g, b) == At(PALETTE, glyph_index(luminance(r, g, b)))


\* ------------------------------------------------------------ message.rs
\* AsciiFrame::new: width * height cells of four zero bytes.
AsciiFrame_new(width, height) ==
    [width |-> width, height |-> height,
     data |-> [i \in 1..(width * height * 4) |-> 0]]

\* AsciiFrame::set_cell
set_cell(f, x, y, ch, r, g, b) ==
    LET idx == (y * f.width + x) * 4
    IN  IF idx + 3 < Len(f.data)
        THEN [f EXCEPT !.data = Put(Put(Put(Put(@, idx, ch), idx + 1, r), idx + 2, g),
                                    idx + 3, b)]
        ELSE f

\* AsciiFrame::get_cell
get_cell(f, x, y) ==
    LET idx == (y * f.width + x) * 4
    IN  IF idx + 3 < Len(f.data)
        THEN Some(<<At(f.data, idx), At(f.data, idx + 1), At(f.data, idx + 2),
                    At(f.data, idx + 3)>>)
        ELSE None

\* ---------------------------------------------------------------- ascii.rs
\* to_ascii_frame, lines 32-39: the pixel at column x of row y of the
\* raster, black when the raster is too short.
pixel_at(raster, x, y) ==
    LET idx == y * raster.stride + x * 3
    IN  IF idx + 2 < Len(raster.data)
        THEN <<At(raster.data, idx), At(raster.data, idx + 1), At(raster.data, idx + 2)>>
        ELSE <<0, 0, 0>>

\* to_ascii_frame, lines 41-48: the cell for one pixel.
encode_cell(f, raster, x, y, m) ==
    LET p == pixel_at(raster, x, y)
        ch == ascii_for(p[1], p[2], p[3])
        gray == luminance(p[1], p[2], p[3])
    IN  IF m THEN set_cell(f, x, y, ch, gray, gray, gray)
        ELSE set_cell(f, x, y, ch, p[1], p[2], p[3])

\* The loops of to_ascii_frame, rows outside and columns inside: the first
\* n cells in row-major order.
RECURSIVE encode_cells(_, _, _, _, _)
encode_cells(raster, width, height, m, n) ==
    IF n = 0 THEN AsciiFrame_new(width, height)
    ELSE encode_cell(encode_cells(raster, width, height, m, n - 1), raster,
                     (n - 1) % width, (n - 1) \div width, m)

to_ascii_frame(raster, width, height, m) ==
    encode_cells(raster, width, height, m, width * height)

\* contrast is an f32; the model draws it from the multiples of 1/4, for
\* which (v - 128.0) * contrast + 128.0 is exact in f32.
Quarter == 4

\* A faulty channel that applies the contrast before the brightness.
adjust_channel_swapped(v, contrast, brightness) ==
    LET t == Min(Max((v - 128) * contrast + 128 * Quarter, 0), 255 * Quarter) \div Quarter
    IN  Min(Max(t + brightness, 0), 255)

\* adjust_contrast, lines 59-65, for one channel: add the brightness and
\* clamp, apply the contrast around 128 and clamp, `as u8` drops the
\* fraction.
adjust_channel(v, contrast, brightness) ==
    LET v1 == Min(Max(v + brightness, 0), 255)
        t == (v1 - 128) * contrast + 128 * Quarter
    IN  Min(Max(t, 0), 255 * Quarter) \div Quarter

\* A faulty adjustment that keeps the old character.
adjust_cell_stale(d, i, contrast, brightness) ==
    LET r == adjust_channel(At(d, i + 1), contrast, brightness)
        g == adjust_channel(At(d, i + 2), contrast, brightness)
        b == adjust_channel(At(d, i + 3), contrast, brightness)
    IN  Put(Put(Put(d, i + 1, r), i + 2, g), i + 3, b)

\* adjust_contrast, lines 58-73: the cell that starts at byte i.
adjust_cell(d, i, contrast, brightness) ==
    LET r == adjust_channel(At(d, i + 1), contrast, brightness)
        g == adjust_channel(At(d, i + 2), contrast, brightness)
        b == adjust_channel(At(d, i + 3), contrast, brightness)
    IN  Put(Put(Put(Put(d, i, ascii_for(r, g, b)), i + 1, r), i + 2, g), i + 3, b)

\* The loop of adjust_contrast over i = 0, 4, 8, ... with i + 3 < len: the
\* first n whole cells.
RECURSIVE adjust_cells(_, _, _, _)
adjust_cells(d, n, contrast, brightness) ==
    IF n = 0 THEN d
    ELSE adjust_cell(adjust_cells(d, n - 1, contrast, brightness), (n - 1) * 4,
                     contrast, brightness)

adjust_contrast(f, contrast, brightness) ==
    [f EXCEPT !.data = adjust_cells(@, Len(@) \div 4, contrast, brightness)]


\* ------------------------------------------------------ the encoder's runs
\* Largest width and height of the frames encoded.
MaxDim == 2
\* Largest brightness given to adjust_contrast, in either direction.
MaxBright == 200

Bytes == 0..255

\* The colours looked up: the greys and their neighbours with one more of
\* green, which between them have every luminance.
LookPixels ==
    {[r |-> v, g |-> Min(v + w, 255), b |-> v] : v \in Bytes, w \in {0, 1}}

\* The colours of the rasters encoded: black, white and a colour of
\* luminance 222.
FramePixels == {<<0, 0, 0>>, <<255, 255, 255>>, <<255, 200, 255>>}

\* The RGB24 raster of the given rows and width, with pad bytes at the end
\* of each row, whose pixels are px (row-major).
Raster(px, width, rows, pad) ==
    LET stride == 3 * width + pad
    IN  [stride |-> stride,
         data |-> [i \in 1..(stride * rows) |->
                     LET col == (i - 1) % stride
                         row == (i - 1) \div stride
                     IN  IF col < 3 * width
                         THEN px[row * width + (col \div 3) + 1][(col % 3) + 1]
                         ELSE 0]]

\* The rasters given to to_ascii_frame for a frame of that width and height:
\* of the frame's size or one row short, rows packed or padded.
Rasters(width, height) ==
    {Raster(px, width, height, pad) :
        px \in [1..(width * height) -> FramePixels], pad \in {0, 1}}
    \cup {Raster(px, width, height - 1, 0) :
            px \in [1..(width * (height - 1)) -> FramePixels]}

Contrasts == {0, 2, 4, 6, 8}
Brightnesses == {0 - MaxBright, 0 - 1, 0, 1, MaxBright}

\* Nothing has been looked up or encoded yet.
Fresh == pixel = None /\ frame = None

\* ascii_for is applied to a colour.
Look ==
    /\ Fresh
    /\ \E p \in LookPixels :
          /\ pixel' = p
          /\ glyph_ix' = glyph_index(luminance(p.r, p.g, p.b))
          /\ glyph' = ascii_for(p.r, p.g, p.b)
    /\ rgb' = None /\ mono' = FALSE /\ frame' = None /\ encoded' = None
    /\ knobs' = None /\ probe' = None
    /\ UNCHANGED NotPix

\* to_ascii_frame is applied to a raster (webcam.rs 234).
Encode ==
    /\ Fresh
    /\ \E width \in 1..MaxDim, height \in 1..MaxDim, m \in BOOLEAN :
          \E raster \in Rasters(width, height) :
             /\ rgb' = raster
             /\ mono' = m
             /\ frame' = to_ascii_frame(raster, width, height, m)
             /\ encoded' = to_ascii_frame(raster, width, height, m)
    /\ knobs' = None /\ probe' = None
    /\ pixel' = None /\ glyph_ix' = 0 /\ glyph' = 0
    /\ UNCHANGED NotPix

\* adjust_contrast is applied to the frame as encoded, once.
Adjust ==
    /\ frame # None
    /\ knobs = None
    /\ probe = None
    /\ \E contrast \in Contrasts, brightness \in Brightnesses :
          /\ knobs' = [before |-> frame, contrast |-> contrast, brightness |-> brightness]
          /\ frame' = adjust_contrast(frame, contrast, brightness)
    /\ probe' = None
    /\ UNCHANGED <<pixel, glyph_ix, glyph, rgb, mono, encoded>>
    /\ UNCHANGED NotPix

\* get_cell is applied to the frame as encoded, once.
GetCell ==
    /\ frame # None
    /\ probe = None
    /\ knobs = None
    /\ \E x \in 0..(MaxDim + 1), y \in 0..(MaxDim + 1) :
          probe' = [x |-> x, y |-> y, cell |-> get_cell(frame, x, y)]
    /\ UNCHANGED <<pixel, glyph_ix, glyph, rgb, mono, frame, encoded, knobs>>
    /\ UNCHANGED NotPix

EncodeNext == Look \/ Encode \/ Adjust \/ GetCell

EncodeSpec == Init /\ [][EncodeNext]_vars


\* ---------------------------------------------------------------- C21
\* The luminance of the colour looked up.
LookedUp == pixel # None
Y == luminance(pixel.r, pixel.g, pixel.b)

\* C21: for the luminance Y of every colour looked up, the glyph index is
\* the integer part of Y * (N - 1) / 255, lies within 0..N-1, is no larger
\* than the index of any brighter luminance, and the glyph is the palette
\* entry at that index, whatever colour had that luminance.
C21_GlyphIndex ==
    LookedUp =>
        LET N == Len(PALETTE)
        IN  /\ 255 * glyph_ix <= Y * (N - 1)
            /\ Y * (N - 1) < 255 * (glyph_ix + 1)
            /\ glyph_ix \in 0..(N - 1)
            /\ \A y2 \in Y..255 : glyph_ix <= glyph_index(y2)
            /\ glyph = PALETTE[glyph_ix + 1]

\* A colour of luminance 222 has been looked up and got index 59.
C21_Witness == LookedUp /\ Y = 222 /\ glyph_ix = 59

\* ---------------------------------------------------------------- C22
Black == [r |-> 0, g |-> 0, b |-> 0]
White == [r |-> 255, g |-> 255, b |-> 255]

Space == 32
AtSign == 64

\* C23: black has luminance 0 and the glyph ' ', white has luminance 255 and
\* the glyph '@'.
C23_FixedCharacters ==
    /\ pixel = Black => (Y = 0 /\ glyph = Space)
    /\ pixel = White => (Y = 255 /\ glyph = AtSign)

\* ---------------------------------------------------------------- C24
\* adjust_contrast was called with contrast 1.0 and brightness 0.
Neutral == knobs # None /\ knobs.contrast = Quarter /\ knobs.brightness = 0

\* C24: adjust_contrast with contrast 1.0 and brightness 0 leaves the frame
\* that to_ascii_frame produced as it was, glyphs and colours.
C24_NeutralIsIdentity == Neutral => frame = encoded

\* ---------------------------------------------------------------- C25
\* C25: get_cell returns None for a column or a row outside the frame, and
\* the four bytes stored for column x of row y inside it.
C25_GetCell ==
    probe # None =>
        IF probe.x >= frame.width \/ probe.y >= frame.height
        THEN probe.cell = None
        ELSE LET idx == (probe.y * frame.width + probe.x) * 4
             IN  probe.cell = Some(SubSeq(frame.data, idx + 1, idx + 4))

\* ---------------------------------------------------------------- C30
\* The whole cells of a frame's data.
Cells(f) == 0..((Len(f.data) \div 4) - 1)

\* t is the integer part of (v1 - 128) * contrast + 128 clamped to 0..255,
\* for v1 the channel v plus the brightness clamped to 0..255.
Adjusted(v, t, contrast, brightness) ==
    LET v1 == IF v + brightness < 0 THEN 0
              ELSE IF v + brightness > 255 THEN 255 ELSE v + brightness
        x == (v1 - 128) * contrast + 128 * Quarter
    IN  IF x <= 0 THEN t = 0
        ELSE IF x >= 255 * Quarter THEN t = 255
        ELSE Quarter * t <= x /\ x < Quarter * (t + 1)

\* C30: after adjust_contrast every channel of every cell is the clamped
\* contrast of the clamped brightness of its previous value, and every
\* cell's glyph is ascii_for of the cell's new colour.
C30_AdjustInSync ==
    knobs # None =>
        /\ Len(frame.data) = Len(knobs.before.data)
        /\ \A j \in Cells(frame) :
              /\ \A ch \in 1..3 :
                    Adjusted(At(knobs.before.data, 4 * j + ch), At(frame.data, 4 * j + ch),
                             knobs.contrast, knobs.brightness)
              /\ At(frame.data, 4 * j)
                    = ascii_for(At(frame.data, 4 * j + 1), At(frame.data, 4 * j + 2),
                                At(frame.data, 4 * j + 3))

\* A colour frame has been brightened and given more contrast, which changed
\* colours and glyphs.
C30_Witness ==
    /\ knobs # None
    /\ knobs.contrast > Quarter /\ knobs.brightness > 0
    /\ ~mono
    /\ \E j \in Cells(frame) :
          /\ At(frame.data, 4 * j) # At(knobs.before.data, 4 * j)
          /\ At(frame.data, 4 * j + 2) # At(knobs.before.data, 4 * j + 2)

\* ------------------------------------------------------- frames on the wire
\* The AsciiFrame values a client puts in a Frame message.  The shipped
\* client sends what to_ascii_frame made of a camera picture (client.rs
\* 131-140); the hub deserializes width, height and data from the JSON text
\* as three independent fields (message.rs 55-62, server.rs 70), so any
\* other client can send a frame whose data is shorter or longer than its
\* declared size.
EncodedFrames ==
    {to_ascii_frame(Raster(<<p>>, 1, 1, 0), 1, 1, FALSE) : p \in FramePixels}
ForgedFrames ==
    {[width |-> 1, height |-> 1, data |-> <<>>],
     [width |-> 2, height |-> 1, data |-> <<32, 0, 0, 0>>]}
WireFrames == EncodedFrames \cup ForgedFrames

\* select!: ws_rx.next() yields the text of a Join.
RecvJoin(c) == RecvText(c) /\ pc'[c] = "join_add"

\* select!: ws_rx.next() yields the text of a Frame message, which
\* serde_json::from_str parses (server.rs 70).
RecvFrame(c) ==
    /\ pc[c] = "loop"
    /\ ndata < MaxData
    /\ \E f \in WireFrames, id \in ClaimedIds :
          LET m == [type |-> "Frame", user_id |-> id, username |-> NameOf(c),
                    frame |-> f]
          IN  /\ msg' = [msg EXCEPT ![c] = Bound(m)]
              /\ pc' = [pc EXCEPT ![c] = Arm(m)]
    /\ ndata' = ndata + 1
    /\ UNCHANGED <<user, new_user, user_list, users, last_frame, connections,
                   queue, sock, nextId>>

\* The hub with clients that join and send frames.
WireNext ==
    \E c \in Conns :
        \/ Turn(c) /\ Accept(c) /\ UNCHANGED NotHub
        \/ Turn(c) /\ MayRead /\ RecvJoin(c) /\ UNCHANGED NotHub
        \/ Turn(c) /\ MayRead /\ RecvFrame(c) /\ UNCHANGED NotHub
        \/ Turn(c) /\ JoinAdd(c) /\ UNCHANGED NotHub
        \/ Turn(c) /\ JoinInsert(c) /\ UNCHANGED NotHub
        \/ Turn(c) /\ JoinAck(c) /\ UNCHANGED NotHub
        \/ Turn(c) /\ JoinList(c) /\ UNCHANGED NotHub
        \/ Turn(c) /\ JoinNotify(c) /\ UNCHANGED NotHub
        \/ Turn(c) /\ Frame(c) /\ UNCHANGED NotHub
        \/ Turn(c) /\ Deliver(c) /\ UNCHANGED NotHub

WireSpec == Init /\ [][WireNext]_vars

\* data holds four bytes for each of the width * height cells.
WellSized(f) == Len(f.data) = f.width * f.height * 4

\* The frames of the Frame messages in a sequence of messages.
FramesIn(q) == {q[i].frame : i \in {j \in 1..Len(q) : q[j].type = "Frame"}}

\* The frames an aggregator holds.
FramesOf(cs) == {cs.last_frames[n] : n \in DOMAIN cs.last_frames}

\* C26: every frame in the system has width * height * 4 bytes of data: the
\* frame the hub stores as a user's last frame, the frames it has enqueued
\* for or written to a peer, and the frames in a client's aggregator.
C26_FrameSize ==
    /\ \A id \in DOMAIN last_frame :
          last_frame[id] # None => WellSized(last_frame[id].some)
    /\ \A d \in Conns :
          /\ \A f \in FramesIn(queue[d]) \cup FramesIn(sock[d]) : WellSized(f)
          /\ \A f \in FramesOf(Client(d)) : WellSized(f)

\* C26, the encoder's part: the frame to_ascii_frame returns, and the frame
\* adjust_contrast leaves, have width * height * 4 bytes of data.
C26_EncoderFrameSize ==
    /\ frame # None => WellSized(frame)
    /\ encoded # None => WellSized(encoded)

\* ---------------------------------------------------- the client aggregator
\* Messages and local frames one run of the aggregator handles.
MaxInbox == 4

\* The display name the client joined with (client.rs 27, 65).
Own == "alice"

\* The rosters a UserList may carry: in any order, empty, with one name.
Rosters ==
    {<<>>,
     <<[user_id |-> 1, username |-> "alice", connected_at |-> 1]>>,
     <<[user_id |-> 1, username |-> "alice", connected_at |-> 1],
       [user_id |-> 2, username |-> "bob", connected_at |-> 2]>>,
     <<[user_id |-> 2, username |-> "bob", connected_at |-> 2],
       [user_id |-> 1, username |-> "alice", connected_at |-> 1]>>}

\* The frames sent around: of a black and of a white picture.
SomeFrames ==
    {to_ascii_frame(Raster(<<p>>, 1, 1, 0), 1, 1, FALSE) :
        p \in {<<0, 0, 0>>, <<255, 255, 255>>}}

\* What the socket may yield (client.rs 76-77): any message of the protocol,
\* in any order and any number of times.
Inbound ==
    {UserListMsg(l) : l \in Rosters}
    \cup [type : {"Frame"}, user_id : {1}, username : Names, frame : SomeFrames]
    \cup [type : {"Chat"}, user_id : {1}, username : {"bob"}, content : {"hi"}]
    \cup [type : {"UserJoined", "UserLeft"}, user_id : {2}, username : {"bob"}]
    \cup {Ack(TRUE, Welcome(Own)), Pong}

\* What the log keeps of a frame the capture task stored locally.
Captured(f) == [type |-> "Captured", frame |-> f]

\* The receiver task handles one message (client.rs 74-110).
Receive ==
    /\ Len(inbox) < MaxInbox
    /\ \E m \in Inbound :
          /\ agg' = receive(agg, m)
          /\ inbox' = Append(inbox, m)
    /\ UNCHANGED NotAgg

\* The webcam sender task got a frame from the bridge and stores it under
\* the client's own name before it sends it (client.rs 130-135).
StoreOwn ==
    /\ Len(inbox) < MaxInbox
    /\ \E f \in SomeFrames :
          /\ agg' = [agg EXCEPT !.last_frames = (Own :> f) @@ @]
          /\ inbox' = Append(inbox, Captured(f))
    /\ UNCHANGED NotAgg

AggNext == Receive \/ StoreOwn

AggSpec == Init /\ [][AggNext]_vars

\* The last entry of the log that satisfies Is, if any.
LastOf(Is(_)) ==
    LET at == {i \in 1..Len(inbox) : Is(inbox[i])}
    IN  IF at = {} THEN None
        ELSE Some(inbox[CHOOSE i \in at : \A j \in at : j <= i])

IsUserList(m) == m.type = "UserList"

\* The roster is that of the last UserList handled.
RosterIsLast ==
    LET last == LastOf(IsUserList)
    IN  agg.connected_users =
            IF last = None THEN <<>>
            ELSE [i \in 1..Len(last.some.list) |-> last.some.list[i].username]

\* Under name n the aggregator holds the frame of the last entry of the log
\* that satisfies Is, and nothing if there is none.
FrameIsLast(n, Is(_)) ==
    LET last == LastOf(Is)
    IN  IF last = None THEN n \notin DOMAIN agg.last_frames
        ELSE n \in DOMAIN agg.last_frames /\ agg.last_frames[n] = last.some.frame

\* Handling a UserList or a Frame a second time changes nothing.
TwiceIsOnce ==
    \A m \in Inbound :
        m.type \in {"UserList", "Frame"} => receive(receive(agg, m), m) = receive(agg, m)

OwnJoinSetsUser ==
    \A c \in Conns :
        user'[c] # user[c] =>
            /\ pc[c] = "join_insert"
            /\ user'[c] = new_user[c]
            /\ new_user[c].username = NameOf(c)

\* The Frame and Chat messages a step enqueues for d.
DataAdded(d) ==
    IF Kept(d) THEN {Added(d)[i] : i \in {j \in 1..Len(Added(d)) : IsData(Added(d)[j])}}
    ELSE {}

\* C29: every Frame and Chat the hub enqueues is enqueued by the Frame or
\* Chat arm of a task that has joined, and carries the id and the name of
\* that task's own user, which only the task's own Join sets; the user_id
\* and username of the inbound message are not in it.
C29_TaggedBySession ==
    [][/\ OwnJoinSetsUser
       /\ \A d \in Conns : \A m \in DataAdded(d) :
             \E c \in Conns :
                /\ pc[c] \in {"frame", "chat"} /\ pc'[c] = "loop"
                /\ user[c] # None
                /\ m.user_id = user[c].id
                /\ m.username = user[c].username
                /\ m.username = NameOf(c)
                /\ m = IF m.type = "Frame" THEN FrameMsg(user[c], Payload(m))
                       ELSE ChatMsg(user[c], Payload(m))]_vars

\* alice has been sent a frame and a chat tagged with the id and the name of
\* bob's session, an id no inbound message names.
C29_Witness ==
    /\ user[2] # None /\ user[2].id \notin ClaimedIds
    /\ \E i, j \in 1..Len(sock[1]) :
          /\ sock[1][i].type = "Frame" /\ sock[1][i] = FrameMsg(user[2], Payload(sock[1][i]))
          /\ sock[1][j].type = "Chat" /\ sock[1][j] = ChatMsg(user[2], Payload(sock[1][j]))

\* ------------------------------------------------------------ the hub's locks
\* The locks of the hub: the registry `users` (user.rs 49, a tokio RwLock),
\* the table `connections` (server.rs 16, a parking_lot RwLock) and the
\* last_frame of each user (user.rs 13, a tokio RwLock).
UsersLock == [name |-> "users", of |-> 0]
ConnectionsLock == [name |-> "connections", of |-> 0]
LastFrameLock(c) == [name |-> "last_frame", of |-> c]

\* What a task does next: take a guard, drop it, put a message into the
\* peers' channels (mpsc::UnboundedSender::send, which returns at once), or
\* await the socket.
Acq(l, mode) == [op |-> "acquire", lock |-> l, mode |-> mode]
Rel(l) == [op |-> "release", lock |-> l]
Enqueue == [op |-> "enqueue"]
SocketIO == [op |-> "io"]

\* A faulty broadcast that writes to the peers' sockets under the guard.
broadcast_ops_io == <<Acq(ConnectionsLock, "read"), SocketIO, Rel(ConnectionsLock)>>

\* broadcast_to_all and broadcast_except (server.rs 220-244): the read guard
\* `conns` lives until the function returns.
broadcast_ops == <<Acq(ConnectionsLock, "read"), Enqueue, Rel(ConnectionsLock)>>

\* add_user and remove_user (user.rs 61-75): users.write().await.
write_users_ops == <<Acq(UsersLock, "write"), Rel(UsersLock)>>

\* get_user_list (user.rs 104-111): users.read().await.
read_users_ops == <<Acq(UsersLock, "read"), Rel(UsersLock)>>

\* connections.write().insert(..) and connections.write().remove(..)
\* (server.rs 83, 160, 202): the guard is a temporary of the statement.
write_connections_ops == <<Acq(ConnectionsLock, "write"), Rel(ConnectionsLock)>>

\* Message::Join, server.rs 75-113.
join_ops ==
    write_users_ops \o write_connections_ops \o <<SocketIO>> \o read_users_ops
    \o broadcast_ops \o broadcast_ops

\* Message::Frame, server.rs 114-129: update_frame (user.rs 37-39), then
\* the broadcast.
frame_ops(c) ==
    <<Acq(LastFrameLock(c), "write"), Rel(LastFrameLock(c))>> \o broadcast_ops

\* Message::Chat, server.rs 130-143.
chat_ops == broadcast_ops

\* Message::Ping, server.rs 144-148, and the rx.recv() branch, 192-196: one
\* write to the socket.
send_ops == <<SocketIO>>

\* The disconnect steps, server.rs 158-175 and 200-214.
leave_ops ==
    write_users_ops \o write_connections_ops \o broadcast_ops \o read_users_ops
    \o broadcast_ops

\* No other task holds a guard of l that excludes a guard of that mode.
Free(c, l, mode) ==
    \A d \in Conns \ {c} : \A h \in holds[d] :
        h.lock = l => (mode = "read" /\ h.mode = "read")

\* The task has asked for a guard and waits for it.
Waiting(c) == \E i \in 1..Len(waitq) : waitq[i] = c

\* No task that asked for the same lock earlier still waits: both kinds of
\* RwLock serve their waiters in the order of arrival, so a reader queues
\* behind a waiting writer even while other readers hold the lock.
First(c) ==
    \A i \in 1..Len(waitq) :
        Head(ops[waitq[i]]).lock = Head(ops[c]).lock
        => \A j \in 1..Len(waitq) : waitq[j] = c => j <= i

\* The task is between two handlers, awaiting select! (server.rs 65).
AtSelect(c) == phase[c] # "done" /\ ops[c] = <<>>

\* select! yields a message of the client or of the channel and the task
\* starts the handler for it.  Frame and Chat of a task that has not joined
\* do nothing; WsMessage::Close runs the disconnect steps and breaks to
\* the cleanup, which runs them again; the end of the stream runs the
\* cleanup.
StartHandler(c) ==
    /\ AtSelect(c)
    /\ \/ ops' = [ops EXCEPT ![c] = join_ops] /\ phase' = [phase EXCEPT ![c] = "joined"]
       \/ /\ phase[c] = "joined"
          /\ ops' = [ops EXCEPT ![c] = frame_ops(c)]
          /\ UNCHANGED phase
       \/ /\ phase[c] = "joined"
          /\ ops' = [ops EXCEPT ![c] = chat_ops]
          /\ UNCHANGED phase
       \/ ops' = [ops EXCEPT ![c] = send_ops] /\ UNCHANGED phase
       \/ /\ ops' = [ops EXCEPT ![c] =
                        IF phase[c] = "joined" THEN leave_ops \o leave_ops ELSE <<>>]
          /\ phase' = [phase EXCEPT ![c] = "done"]
       \/ /\ ops' = [ops EXCEPT ![c] =
                        IF phase[c] = "joined" THEN leave_ops ELSE <<>>]
          /\ phase' = [phase EXCEPT ![c] = "done"]
    /\ UNCHANGED <<holds, waitq>>
    /\ UNCHANGED NotLck

\* The task calls read() or write() of a lock.
Request(c) ==
    /\ ops[c] # <<>> /\ Head(ops[c]).op = "acquire"
    /\ ~Waiting(c)
    /\ waitq' = Append(waitq, c)
    /\ UNCHANGED <<ops, holds, phase>>
    /\ UNCHANGED NotLck

\* The task gets the guard it waits for.
Acquire(c) ==
    /\ Waiting(c)
    /\ First(c)
    /\ Free(c, Head(ops[c]).lock, Head(ops[c]).mode)
    /\ waitq' = SelectSeq(waitq, LAMBDA d : d # c)
    /\ holds' = [holds EXCEPT ![c] =
                    @ \cup {[lock |-> Head(ops[c]).lock, mode |-> Head(ops[c]).mode]}]
    /\ ops' = [ops EXCEPT ![c] = Tail(@)]
    /\ UNCHANGED phase
    /\ UNCHANGED NotLck

\* The guard goes out of scope.
Release(c) ==
    /\ ops[c] # <<>> /\ Head(ops[c]).op = "release"
    /\ holds' = [holds EXCEPT ![c] = {h \in @ : h.lock # Head(ops[c]).lock}]
    /\ ops' = [ops EXCEPT ![c] = Tail(@)]
    /\ UNCHANGED <<phase, waitq>>
    /\ UNCHANGED NotLck

\* The loop over the senders in the broadcast functions.
Fanout(c) ==
    /\ ops[c] # <<>> /\ Head(ops[c]).op = "enqueue"
    /\ ops' = [ops EXCEPT ![c] = Tail(@)]
    /\ UNCHANGED <<holds, phase, waitq>>
    /\ UNCHANGED NotLck

\* The task awaits a write to its socket.
AtIO(c) == ops[c] # <<>> /\ Head(ops[c]).op = "io"

\* ws_tx.send(..).await completes.
SocketDone(c) ==
    /\ AtIO(c)
    /\ ops' = [ops EXCEPT ![c] = Tail(@)]
    /\ UNCHANGED <<holds, phase, waitq>>
    /\ UNCHANGED NotLck

LockNext ==
    \E c \in Conns :
        \/ StartHandler(c)
        \/ Request(c)
        \/ Acquire(c)
        \/ Release(c)
        \/ Fanout(c)
        \/ SocketDone(c)

\* A task that runs synchronous code goes on, and a task that is first in
\* line for a lock that is free gets it.  When a client sends and when a
\* socket write completes is left open: a write may never complete.
LockSpec ==
    /\ Init
    /\ [][LockNext]_vars
    /\ \A c \in Conns : WF_vars(Release(c)) /\ WF_vars(Fanout(c))
    /\ \A c \in Conns : WF_vars(Request(c)) /\ WF_vars(Acquire(c))

\* No task holds a guard of the registry or of the table (or of a frame)
\* while it awaits the socket, for reading or for writing.
NoLockAcrossIO == \A c \in Conns : (AtIO(c) \/ AtSelect(c)) => holds[c] = {}

\* C28: no task holds a hub lock while it awaits a socket send or receive,
\* and a task that waits for a hub lock gets it, whatever the other tasks
\* do and however long their socket writes take.
C28_NoLockAcrossIO ==
    /\ []NoLockAcrossIO
    /\ \A c \in Conns : Waiting(c) ~> ~Waiting(c)

\* One task waits for the write guard of the table while another holds the
\* read guard in a broadcast.
C28_Witness ==
    \E c \in Conns, d \in Conns :
        /\ c # d
        /\ Waiting(c) /\ Head(ops[c]) = Acq(ConnectionsLock, "write")
        /\ ~Free(c, ConnectionsLock, "write")
        /\ [lock |-> ConnectionsLock, mode |-> "read"] \in holds[d]

\* ------------------------------------------------ the pacing of the frames
\* The last instant of a run, in ms.
MaxClock == 12
\* The longest a decode, a scale-and-encode or a blocked send takes, in ms.
MaxLag == 2
\* How much longer than asked thread::sleep may sleep, in ms.
MaxOversleep == 1

\* The frame caps configured: none, 300 and 500 frames a second, and a cap
\* above 1000, whose interval rounds down to 0 ms.
Caps == {0, 300, 500, 2000}

\* webcam.rs 194-199: Duration::from_millis(1000 / fps_cap), 0 without cap.
frame_duration(cap) == IF cap > 0 THEN 1000 \div cap ELSE 0

\* A faulty FPS cap that sleeps half of what is left of the interval.
wait_time_half(interval, elapsed) ==
    IF interval > 0 /\ elapsed < interval THEN (interval - elapsed) \div 2 ELSE 0

\* webcam.rs 223-227: how long the thread sleeps before it goes on with a
\* decoded frame.
wait_time(interval, elapsed) ==
    IF interval > 0 /\ elapsed < interval THEN interval - elapsed ELSE 0

\* Time goes on by d ms.
Pass(d) == clock + d <= MaxClock /\ clock' = clock + d

\* process_frames up to its loop (webcam.rs 160-201), with the cap of the
\* configuration: last_frame_time = Instant::now().
EnterLoop ==
    /\ stage = "start"
    /\ \E cap \in Caps : fps_cap' = cap
    /\ last_frame_time' = clock
    /\ stage' = "decode"
    /\ UNCHANGED <<clock, handed_at, returned_at, slept>>
    /\ UNCHANGED NotTim

\* The packets are read and decoder.receive_frame yields a frame (webcam.rs
\* 204-221), which takes its time.
Decoded ==
    /\ stage = "decode"
    /\ \E d \in 0..MaxLag : Pass(d)
    /\ stage' = "cap"
    /\ UNCHANGED <<fps_cap, last_frame_time, handed_at, returned_at, slept>>
    /\ UNCHANGED NotTim

\* Apply FPS cap (webcam.rs 222-227): thread::sleep returns after the time
\* asked for or later.
FpsCap ==
    /\ stage = "cap"
    /\ LET wait == wait_time(frame_duration(fps_cap), clock - last_frame_time)
       IN  IF frame_duration(fps_cap) > 0 /\ clock - last_frame_time < frame_duration(fps_cap)
           THEN /\ \E over \in 0..MaxOversleep : Pass(wait + over)
                /\ slept' = TRUE
           ELSE UNCHANGED <<clock, slept>>
    /\ stage' = "encode"
    /\ UNCHANGED <<fps_cap, last_frame_time, handed_at, returned_at>>
    /\ UNCHANGED NotTim

\* scaler.run and to_ascii_frame take their time, then tx.send is called
\* (webcam.rs 229-237): the frame is handed to the queue.
HandOver ==
    /\ stage = "encode"
    /\ \E d \in 0..MaxLag : Pass(d)
    /\ handed_at' = Some(clock')
    /\ stage' = "send"
    /\ UNCHANGED <<fps_cap, last_frame_time, returned_at, slept>>
    /\ UNCHANGED NotTim

\* tx.send returns, at once or after it has blocked on the full channel,
\* and last_frame_time = Instant::now() (webcam.rs 237-242).
SendReturned ==
    /\ stage = "send"
    /\ \E d \in 0..MaxLag : Pass(d)
    /\ returned_at' = Some(clock')
    /\ last_frame_time' = clock'
    /\ stage' = "decode"
    /\ UNCHANGED <<fps_cap, handed_at, slept>>
    /\ UNCHANGED NotTim

PaceNext == EnterLoop \/ Decoded \/ FpsCap \/ HandOver \/ SendReturned

PaceSpec == Init /\ [][PaceNext]_vars

\* C31: with a frame cap F > 0 a frame is handed to the queue no sooner than
\* floor(1000 / F) ms after the send of the frame before it returned, and
\* with F = 0 the thread never sleeps.
C31_RatePacing ==
    /\ (stage = "send" /\ returned_at # None /\ fps_cap > 0)
          => handed_at.some - returned_at.some >= 1000 \div fps_cap
    /\ fps_cap = 0 => ~slept

\* With a cap of 300 frames a second the second frame was decoded at once,
\* the thread slept, and the frame is handed over 3 ms after the first send
\* returned.
C31_Witness ==
    /\ stage = "send" /\ returned_at # None /\ fps_cap = 300
    /\ slept
    /\ handed_at.some - returned_at.some = 3

\* ---------------------------------------------------------------------- C32
\* The step handles the inbound message m.
Handles(m) == inbox' = Append(inbox, m) /\ m.type # "Captured"

\* f and g are equal outside the key n.
SameBut(f, g, n) ==
    /\ DOMAIN f \ {n} = DOMAIN g \ {n}
    /\ \A k \in DOMAIN f \ {n} : f[k] = g[k]

\* C32: handling a UserList changes only the roster, a Frame only the frames
\* entry of the message's name, a Chat only appends its (name, text) pair to
\* the chat log, and UserJoined, UserLeft, Ack and Pong change nothing.
C32_IndependentProjections ==
    [][\A m \in Inbound : Handles(m) =>
          CASE m.type = "UserList" ->
                  /\ agg'.last_frames = agg.last_frames
                  /\ agg'.chat_messages = agg.chat_messages
            [] m.type = "Frame" ->
                  /\ agg'.connected_users = agg.connected_users
                  /\ agg'.chat_messages = agg.chat_messages
                  /\ SameBut(agg'.last_frames, agg.last_frames, m.username)
            [] m.type = "Chat" ->
                  /\ agg'.connected_users = agg.connected_users
                  /\ agg'.last_frames = agg.last_frames
                  /\ agg'.chat_messages
                        = Append(agg.chat_messages, <<m.username, m.content>>)
            [] OTHER -> agg' = agg]_vars

\* A roster, a frame and a chat are held, and after them a UserJoined, a
\* UserLeft or an Ack was handled.
C32_Witness ==
    /\ Len(inbox) = 4
    /\ inbox[1].type = "UserList" /\ inbox[2].type = "Frame"
    /\ inbox[3].type = "Chat"
    /\ inbox[4].type \in {"UserJoined", "UserLeft", "Ack"}
    /\ Len(agg.connected_users) = 2
    /\ DOMAIN agg.last_frames = {inbox[2].username}
    /\ agg.chat_messages = <<<<"bob", "hi">>>>

\* ---------------------------------------------------------------------- C33
\* The users of the registry whose table entry holds the sender of c's
\* channel: the sessions connection c has created and not removed.
Registered_by(c) == {i \in 1..Len(users) : users[i].id \in Owned(connections, c)}

\* C33: the connection table and the user registry hold at most one entry
\* created by any one connection, whatever that connection has sent.
C33_OneSessionPerConnection ==
    \A c \in Conns :
        /\ Cardinality(Owned(connections, c)) <= 1
        /\ Cardinality(Registered_by(c)) <= 1

\* ---------------------------------------------------------------------- C34
\* C34: when no task is inside a handler and every channel has been
\* drained, the roster in the aggregator of every joined peer is the display
\* names of the registry, however the joins and disconnects before
\* interleaved.
C34_RosterConvergence ==
    Settled =>
        \A d \in Conns :
            (pc[d] = "loop" /\ user[d] # None)
            => Client(d).connected_users = RosterNames

\* ---------------------------------------------------------------------- C35
\* The tasks run concurrently as in RaceSpec; the clients join, send frames
\* and chats, LiveData of them in all, and leave by ending their stream.
RaceDataNext ==
    /\ \E c \in Conns :
          \/ Accept(c)
          \/ MayRead /\ RecvText(c) /\ pc'[c] \in {"join_add", "frame", "chat"}
          \/ MayRead /\ RecvEnd(c)
          \/ JoinAdd(c) \/ JoinInsert(c) \/ JoinAck(c) \/ JoinList(c) \/ JoinNotify(c)
          \/ Frame(c) \/ Chat(c)
          \/ Cleanup(c)
          \/ Deliver(c)
    /\ nextId' + Cardinality({d \in Conns : pc'[d] = "join_add"}) <= LiveJoins + 1
    /\ ndata' <= LiveData
    /\ UNCHANGED NotHub

RaceDataSpec == Init /\ [][RaceDataNext]_vars

\* The messages the hub sends through the channels.
BroadcastTypes == {"UserList", "UserJoined", "UserLeft", "Frame", "Chat"}

\* C35: whatever a connection is sent of UserList, UserJoined, UserLeft,
\* Frame and Chat comes after the Ack of its own Join; a connection that has
\* not joined is sent none of them.
C35_AckFirst ==
    \A d \in Conns : \A i \in 1..Len(sock[d]) :
        sock[d][i].type \in BroadcastTypes
        => \E j \in 1..(i - 1) : sock[d][j].type = "Ack"

\* A peer's frame was put into the joiner's channel after the joiner's table
\* entry was inserted and before its Ack is written: the joiner has been
\* sent nothing yet.
C35_Witness ==
    \E d \in Conns :
        /\ pc[d] = "join_ack"
        /\ sock[d] = <<>>
        /\ queue[d] # <<>> /\ Head(queue[d]).type = "Frame"

\* ------------------------------------------------- the mirror of own frames
\* The connection of the client whose aggregator is `agg`; it joins as Own.
Mine == 1

\* The messages of the socket that the client's receiver task has handled.
Handled == Len(SelectSeq(inbox, LAMBDA m : m.type # "Captured"))

\* The webcam sender task of the client stores a captured frame under its
\* own name and sends it (client.rs 130-146), and the hub's task reads it
\* (server.rs 66-70).  The store comes first in the code; the three are one
\* step here, so the store is never later than the code has it.
SendOwn ==
    /\ RecvText(Mine)
    /\ pc'[Mine] = "frame"
    /\ agg' = [agg EXCEPT !.last_frames = (Own :> msg'[Mine].frame) @@ @]
    /\ inbox' = Append(inbox, Captured(msg'[Mine].frame))
    /\ UNCHANGED <<cam, pix, lck, tim>>

\* A peer's frame is read by the hub.
SendPeer(c) ==
    /\ c # Mine
    /\ RecvText(c)
    /\ pc'[c] = "frame"
    /\ UNCHANGED NotHub

\* The client's receiver task handles the next message the hub has written
\* to its socket (client.rs 74-110).
ReceiveNext ==
    /\ Handled < Len(sock[Mine])
    /\ agg' = receive(agg, sock[Mine][Handled + 1])
    /\ inbox' = Append(inbox, sock[Mine][Handled + 1])
    /\ UNCHANGED NotAgg

MirrorNext ==
    \/ \E c \in Conns :
          \/ Turn(c) /\ Accept(c) /\ UNCHANGED NotHub
          \/ Turn(c) /\ MayRead /\ RecvJoin(c) /\ UNCHANGED NotHub
          \/ Turn(c) /\ MayRead /\ SendPeer(c)
          \/ Turn(c) /\ JoinAdd(c) /\ UNCHANGED NotHub
          \/ Turn(c) /\ JoinInsert(c) /\ UNCHANGED NotHub
          \/ Turn(c) /\ JoinAck(c) /\ UNCHANGED NotHub
          \/ Turn(c) /\ JoinList(c) /\ UNCHANGED NotHub
          \/ Turn(c) /\ JoinNotify(c) /\ UNCHANGED NotHub
          \/ Turn(c) /\ Frame(c) /\ UNCHANGED NotHub
          \/ Turn(c) /\ Deliver(c) /\ UNCHANGED NotHub
    \/ Turn(Mine) /\ MayRead /\ SendOwn
    \/ ReceiveNext

MirrorSpec == Init /\ [][MirrorNext]_vars

\* C36: under no name does the frame the aggregator holds give way to a
\* frame its sender produced earlier (frames are numbered in the order in
\* which they were produced).
C36_NoRevert ==
    [][\A n \in DOMAIN agg.last_frames :
          n \in DOMAIN agg'.last_frames
          /\ agg'.last_frames[n] >= agg.last_frames[n]]_vars

\* C36 without the client's own name: under the name of no other sender
\* does the frame the aggregator holds give way to an earlier one.
PeersNeverRevert ==
    [][\A n \in DOMAIN agg.last_frames \ {Own} :
          n \in DOMAIN agg'.last_frames
          /\ agg'.last_frames[n] >= agg.last_frames[n]]_vars

====
